---- MODULE Spec2Model ----
(***************************************************************************)
(* A model of ndlab's bridge packet multiplexer (src/src/ndlab/connect.py). *)
(*                                                                         *)
(*   Part 1  the framing codec: get_payload_from_packet and                *)
(*           TCPBuffer.get_packets_from_tcp_data, byte by byte             *)
(*           (specification SpecCodec).                                    *)
(*   Part 2  the data plane of a running bridge: wiring, the read and      *)
(*           write paths of the four endpoint kinds, the sniffer's capture *)
(*           sessions (specifications SpecBridge and SpecSniffer).         *)
(*   Part 3  the tasks of the process: start_bridge, asyncio.run, the      *)
(*           gathers of Bridge.connect and of the endpoints, failure and   *)
(*           cancellation (specifications SpecLife and FairLife).          *)
(***************************************************************************)
EXTENDS Integers, Sequences, FiniteSets, TLC

VARIABLES
    host_le,    \* the host's byte order: TRUE little-endian, FALSE big-endian
    c_items,    \* what the peer sends on the connection, item by item
    c_stream,   \* the bytes of c_items the socket has not yet delivered
    c_buffer,   \* TCPBuffer._buffer
    c_out,      \* the concatenation of the lists returned so far
    c_last      \* the last call: buffer before, data, result

VARIABLES
    combined,       \* Bridge._combined, the endpoints in their order
    bridge_pc,      \* Bridge.connect: "constructed", "running" once it has
                    \* wired and awaits its gather, "returned", "raised"
    send_queues,    \* per endpoint: the receive queues it broadcasts to
    receive_queue,  \* per endpoint: its receive queue, oldest item first
    tcp_conn,       \* per TCP endpoint: "none", "opening", "up", "closed",
                    \* "refused"
    tcp_buffer,     \* per TCP endpoint: the TCPBuffer of its read_handler
    sniffer_server, \* "none", then "listening" once start_server has run
    capture_queues, \* TCPSnifferServer.capture_queues (sessions, in order)
    capture_queue,  \* per session: the contents of its capture queue
    session,        \* per client connection: start_session and its handlers
    client_stream,  \* per client connection: the writes the client received
    written,        \* per endpoint: the writes made to its transport
    extracted,      \* per endpoint: the frames its read path obtained
    taken,          \* per endpoint: the items its write path dequeued
    forwarded,      \* per session: the frames forwarded while it was registered
    reads           \* the number of transport reads so far

VARIABLES
    process,        \* start_bridge: "running" (asyncio.run drives the loop),
                    \* "cancelling" (asyncio.run cancels what is left),
                    \* "joining" (it waits for the executor), "exited"
    signalled,      \* signal_handler has run
    connect_task,   \* per endpoint: its connect() as a child of the Bridge's
                    \* gather: "none", "running", "returned", "raised"
    read_task,      \* per endpoint: its read handler: "none", "wait",
                    \* "returned", "raised", "cancelled"
    write_task,     \* per endpoint: its write handler (the sniffer's
                    \* forwarder), same states
    tap_worker      \* the executor thread of read_tap: "idle", or "blocked"
                    \* in os.read

VARIABLES
    start_args,     \* start_bridge's arguments: the endpoints asked for, and
                    \* those of them whose construction fails
    exit_status,    \* how start_bridge ended: -1 it has not, 0 it returned to
                    \* its caller, 1 SystemExit(1) or an exception left it
    unreasonable_at,\* the error log: for each TCP endpoint, how many frames
                    \* it had extracted when it last logged "Unreasonable
                    \* size", -1 if it never did
    backlog         \* for each TCP endpoint: the items that waited on its
                    \* receive queue when its open_connection returned

codec_vars == <<c_items, c_stream, c_buffer, c_out, c_last>>

bridge_vars ==
    <<combined, bridge_pc, send_queues, receive_queue, tcp_conn, tcp_buffer,
      sniffer_server, capture_queues, capture_queue, session, client_stream,
      written, extracted, taken, forwarded, reads>>

life_vars ==
    <<process, signalled, connect_task, read_task, write_task, tap_worker>>

VARIABLES
    lab,            \* the State object: devices with the connection of each
                    \* interface, bridges, tap_endpoints, phyical_endpoints
    lab_call,       \* the last call on the State object and whether it raised
    topology        \* a Topology object: high_level_data and what __init__
                    \* made of it

plan_vars == <<lab, lab_call, topology>>

boot_vars == <<start_args, exit_status, unreasonable_at, backlog, plan_vars>>

vars == <<host_le, codec_vars, bridge_vars, life_vars, boot_vars>>

(***************************************************************************)
(* Program constants.                                                      *)
(***************************************************************************)
MAX_CAPTURE_CONNECTIONS == 1

MTU == 1518

LENGTH == 4

(***************************************************************************)
(* Bounds of the model.                                                    *)
(***************************************************************************)
\* the longest frame of the codec specification
MaxFrameLen == 1

\* the most items (frames, garbage prefixes) on one connection
MaxItems == 3

\* the most TCP endpoints of a bridge
MaxTcp == 2

\* the most transport reads of a run of the bridge
MaxReads == 1

\* the most frames read for the sniffer of the capture specification
MaxCaptures == 2

\* the most endpoints of a bridge whose tasks are followed
MaxLifeEndpoints == 3

\* the most transport reads of a bridge whose tasks are followed
MaxLifeReads == 2

\* the most transport reads of a bridge whose frames are followed in order
MaxFifoReads == 2

\* the most client connections made to the sniffer
MaxClients == 2

\* the byte values frames are made of
FrameBytes == {1}

(***************************************************************************)
(* Sequences.                                                              *)
(***************************************************************************)
SeqsUpTo(S, n) == UNION {[1..k -> S] : k \in 0..n}

(***************************************************************************)
(* struct and socket.  An unsigned 32-bit integer is held as its four      *)
(* bytes, most significant first (a word), so that no value of the full    *)
(* 32-bit range is out of reach.                                           *)
(***************************************************************************)
\* the word of a number below 2^31
Word(x) ==
    << (x \div 16777216) % 256, (x \div 65536) % 256, (x \div 256) % 256, x % 256 >>

\* w > n, for a number n below 2^24
WordAbove(w, n) == w[1] > 0 \/ w[2] * 65536 + w[3] * 256 + w[4] > n

\* the number a word below 2^24 stands for
WordValue(w) == w[2] * 65536 + w[3] * 256 + w[4]

Reverse4(b) == << b[4], b[3], b[2], b[1] >>

\* socket.htonl: host to network order, a byte swap on a little-endian host
htonl_NoSwap(w, le) == w

htonl(w, le) == IF le THEN Reverse4(w) ELSE w

\* socket.ntohl: network to host order, the same swap
ntohl(w, le) == IF le THEN Reverse4(w) ELSE w

\* struct.pack("I", w): the four bytes of w in the host's order
pack_I(w, le) == IF le THEN Reverse4(w) ELSE w

\* struct.unpack("I", b)[0]: four bytes read in the host's order
unpack_I(b, le) == IF le THEN Reverse4(b) ELSE b

(***************************************************************************)
(* get_payload_from_packet.                                                *)
(***************************************************************************)
get_payload_from_packet(packet, le) ==
    pack_I(htonl(Word(Len(packet)), le), le) \o packet

(***************************************************************************)
(* TCPBuffer.get_packets_from_tcp_data.                                    *)
(***************************************************************************)
\* the prefix is not put back
restore_size_Dropped(buffer, reported_size_list) == buffer

\* while reported_size_list: self._buffer.appendleft(reported_size_list.pop())
RECURSIVE restore_size(_, _)
restore_size(buffer, reported_size_list) ==
    IF reported_size_list = <<>> THEN buffer
    ELSE restore_size(
            <<reported_size_list[Len(reported_size_list)]>> \o buffer,
            SubSeq(reported_size_list, 1, Len(reported_size_list) - 1))

\* if reported_size_int > self._current_buffer_size()
body_incomplete_OrExact(reported_size_int, rest) ==
    WordValue(reported_size_int) >= Len(rest)

body_incomplete(reported_size_int, rest) ==
    WordValue(reported_size_int) > Len(rest)

\* the test that finds the stream desynchronized
unreasonable_size_Never(reported_size_int) == FALSE

unreasonable_size_AtMTU(reported_size_int) == WordAbove(reported_size_int, MTU - 1)

unreasonable_size(reported_size_int) == WordAbove(reported_size_int, MTU)

\* packets.append(packet)
append_packet_UnlessEmpty(packets, packet) ==
    IF packet = <<>> THEN packets ELSE Append(packets, packet)

append_packet(packets, packet) == Append(packets, packet)

\* the while loop: buffer and packets as they are when it ends, and which
\* of its branches ended it
RECURSIVE decode_loop(_, _, _)
decode_loop(buffer, packets, le) ==
    IF buffer = <<>>
    THEN [buffer |-> buffer, packets |-> packets, ended |-> "empty"]
    ELSE IF Len(buffer) < LENGTH
    THEN \* popleft has taken every byte when IndexError is raised
         [buffer |-> <<>>, packets |-> packets, ended |-> "short_header"]
    ELSE LET reported_size_packed == SubSeq(buffer, 1, LENGTH)
             rest == SubSeq(buffer, LENGTH + 1, Len(buffer))
             reported_size_int == ntohl(unpack_I(reported_size_packed, le), le)
         IN  IF unreasonable_size(reported_size_int)
             THEN [buffer |-> <<>>, packets |-> packets, ended |-> "oversized"]
             ELSE IF body_incomplete(reported_size_int, rest)
             THEN [buffer |-> restore_size(rest, reported_size_packed),
                   packets |-> packets, ended |-> "partial_body"]
             ELSE decode_loop(
                    SubSeq(rest, WordValue(reported_size_int) + 1, Len(rest)),
                    append_packet(packets,
                                  SubSeq(rest, 1, WordValue(reported_size_int))),
                    le)

get_packets_from_tcp_data(buffer, data, le) ==
    decode_loop(buffer \o data, <<>>, le)

(***************************************************************************)
(* The connection of the codec specification: the peer sends frames, each  *)
(* encoded as get_payload_from_packet encodes it, and possibly garbage: a  *)
(* length prefix above the MTU, or a prefix of exactly the MTU whose body  *)
(* has not arrived.  The socket delivers the bytes in chunks of any size.  *)
(***************************************************************************)
Frames == SeqsUpTo(FrameBytes, MaxFrameLen)

Items ==
    {[kind |-> "frame", frame |-> f] : f \in Frames}
        \cup {[kind |-> "prefix", frame |-> <<>>, size |-> n] : n \in {MTU, MTU + 1}}

ItemBytes(item, le) ==
    IF item.kind = "frame"
    THEN get_payload_from_packet(item.frame, le)
    ELSE Word(item.size)

RECURSIVE StreamOf(_, _)
StreamOf(items, le) ==
    IF items = <<>> THEN <<>>
    ELSE ItemBytes(Head(items), le) \o StreamOf(Tail(items), le)

(***************************************************************************)
(* Endpoints.  A receive queue is named by the endpoint that owns it.      *)
(***************************************************************************)
TcpEndpoints == {<<"tcp", i>> : i \in 1..MaxTcp}

SNIFFER == <<"sniffer", 0>>

PHYSICAL == <<"physical", 0>>

TAP == <<"tap", 0>>

Endpoints == TcpEndpoints \cup {SNIFFER, PHYSICAL, TAP}

Sessions == 1..MaxClients

\* seen: len(self.capture_queues) as start_session read it; at: how many
\* items the forwarder had dequeued by then
NoSession == [state |-> "none", seen |-> 0, at |-> 0, wr |-> "none",
              rd |-> "none", link |-> "none", discarded |-> 0]

\* start_bridge called for no endpoint
NoArgs == [cfg |-> [tcp |-> 0, sniffer |-> FALSE, physical |-> FALSE, tap |-> FALSE],
           invalid |-> {}]

\* State(): no device, no bridge
NoLab ==
    [devices |-> [d \in {} |-> <<>>], device_pid |-> [d \in {} |-> "none"],
     bridges |-> {}, bridge_pid |-> [b \in {} |-> "none"],
     sniffer_port |-> [b \in {} |-> "none"], tap_endpoints |-> {},
     phyical_endpoints |-> {}]

\* no call made on the State object yet
NoLabCall == [op |-> "none", raised |-> FALSE, distinct |-> 0]

\* no Topology constructed yet
NoTopology ==
    [done |-> FALSE, raised |-> FALSE, high_level |-> <<>>, bridges |-> <<>>,
     links_by_device |-> <<>>]

\* the process before Bridge.connect has started a task
NoTasks ==
    /\ process = "running"
    /\ signalled = FALSE
    /\ connect_task = [e \in Endpoints |-> "none"]
    /\ read_task = [e \in Endpoints |-> "none"]
    /\ write_task = [e \in Endpoints |-> "none"]
    /\ tap_worker = "idle"
    /\ exit_status = -1
    /\ unreasonable_at = [e \in TcpEndpoints |-> -1]
    /\ backlog = [e \in TcpEndpoints |-> <<>>]
    /\ lab = NoLab
    /\ lab_call = NoLabCall
    /\ topology = NoTopology

\* the bridge variables of a specification that has no bridge
BridgeIdle ==
    /\ NoTasks
    /\ combined = <<>>
    /\ bridge_pc = "none"
    /\ send_queues = [e \in Endpoints |-> <<>>]
    /\ receive_queue = [e \in Endpoints |-> <<>>]
    /\ tcp_conn = [e \in TcpEndpoints |-> "none"]
    /\ tcp_buffer = [e \in TcpEndpoints |-> <<>>]
    /\ sniffer_server = "none"
    /\ capture_queues = <<>>
    /\ capture_queue = [s \in Sessions |-> <<>>]
    /\ session = [s \in Sessions |-> NoSession]
    /\ client_stream = [s \in Sessions |-> <<>>]
    /\ written = [e \in Endpoints |-> <<>>]
    /\ extracted = [e \in Endpoints |-> <<>>]
    /\ taken = [e \in Endpoints |-> <<>>]
    /\ forwarded = [s \in Sessions |-> <<>>]
    /\ reads = 0

NoCall ==
    [pre |-> <<>>, data |-> <<>>, packets |-> <<>>, ended |-> "none",
     after |-> "none"]

InitCodec ==
    /\ host_le \in BOOLEAN
    /\ c_items \in SeqsUpTo(Items, MaxItems)
    /\ c_stream = StreamOf(c_items, host_le)
    /\ c_buffer = <<>>
    /\ c_out = <<>>
    /\ c_last = NoCall
    /\ start_args = NoArgs
    /\ BridgeIdle

\* one reader.read() of k bytes handed to get_packets_from_tcp_data
Feed(k) ==
    /\ k \in 1..Len(c_stream)
    /\ LET data == SubSeq(c_stream, 1, k)
           r == get_packets_from_tcp_data(c_buffer, data, host_le)
       IN  /\ c_buffer' = r.buffer
           /\ c_out' = c_out \o r.packets
           /\ c_last' = [pre |-> c_buffer, data |-> data, packets |-> r.packets,
                         ended |-> r.ended, after |-> c_last.ended]
    /\ c_stream' = SubSeq(c_stream, k + 1, Len(c_stream))
    /\ UNCHANGED <<boot_vars, host_le, c_items, bridge_vars, life_vars>>

NextCodec == \E k \in 1..(MaxItems * (LENGTH + MaxFrameLen)) : Feed(k)

SpecCodec == InitCodec /\ [][NextCodec]_vars

(***************************************************************************)
(* The last call, placed in the stream.  The buffer is always a suffix of  *)
(* the bytes delivered so far, so the input of a call (buffer before, then *)
(* data) is the piece of the stream from LastStart + 1 to LastEnd.         *)
(***************************************************************************)
Bound(n) == Len(StreamOf(SubSeq(c_items, 1, n), host_le))

LastInput == c_last.pre \o c_last.data

LastEnd == Bound(Len(c_items)) - Len(c_stream)

LastStart == LastEnd - Len(LastInput)

AllFrames(i, j) == \A k \in i..j : c_items[k].kind = "frame"

FramesOfItems(i, j) == [k \in 1..(j - i + 1) |-> c_items[i + k - 1].frame]

IsPrefixItem(j, n) == c_items[j].kind = "prefix" /\ c_items[j].size = n

\* items i..j-1 are frames, the input of the last call starts with them and
\* holds the four bytes of item j
InputReaches(i, j) ==
    /\ i <= j
    /\ AllFrames(i, j - 1)
    /\ LastStart = Bound(i - 1)
    /\ LastEnd >= Bound(j - 1) + LENGTH

ItemRange == 1..Len(c_items)

\* C1: every sequence of frames, encoded and fed to one TCPBuffer in chunks
\* cut anywhere, comes back exactly and in order.
C1_ChunkingRoundTrip ==
    (c_last.ended # "none" /\ c_stream = <<>> /\ AllFrames(1, Len(c_items)))
        => c_out = FramesOfItems(1, Len(c_items))

\* C3 as stated: a call that decodes a prefix above the MTU leaves the
\* buffer empty and returns zero frames; an encoded frame presented in the
\* following call is decoded to exactly that frame; a prefix of exactly the
\* MTU is not treated as oversized.
C3_NextFrameDecodes ==
    \A k \in ItemRange :
        (/\ c_last.after = "oversized"
         /\ c_items[k].kind = "frame"
         /\ LastEnd - Len(c_last.data) = Bound(k - 1)
         /\ LastEnd = Bound(k))
            => c_last.packets = <<c_items[k].frame>> /\ c_buffer = <<>>

C3_MTUPrefixIsKept ==
    \A i, j \in ItemRange :
        (InputReaches(i, j) /\ IsPrefixItem(j, MTU))
            => /\ c_last.ended = "partial_body"
               /\ c_last.packets = FramesOfItems(i, j - 1)
               /\ c_buffer = SubSeq(LastInput, Bound(j - 1) - LastStart + 1,
                                    Len(LastInput))

C3_OversizedReturnsNothing ==
    /\ c_last.ended = "oversized" => (c_buffer = <<>> /\ c_last.packets = <<>>)
    /\ C3_NextFrameDecodes
    /\ C3_MTUPrefixIsKept

\* C3 as amended: a call that decodes a prefix above the MTU leaves the
\* buffer empty and returns exactly the frames decoded before that prefix in
\* the same call, none from the prefix on; the rest as stated.
C3_OversizedDiscardsBuffer ==
    /\ c_last.ended = "oversized" => c_buffer = <<>>
    /\ \A i, j \in ItemRange :
        (InputReaches(i, j) /\ IsPrefixItem(j, MTU + 1))
            => /\ c_last.ended = "oversized"
               /\ c_last.packets = FramesOfItems(i, j - 1)
               /\ c_buffer = <<>>
    /\ C3_NextFrameDecodes
    /\ C3_MTUPrefixIsKept

C3_Witness ==
    /\ Len(c_items) = 3
    /\ c_items[1] = [kind |-> "frame", frame |-> <<1>>]
    /\ IsPrefixItem(2, MTU + 1)
    /\ c_last.after = "oversized"
    /\ c_last.data = get_payload_from_packet(<<1>>, host_le)
    /\ c_last.packets = << <<1>> >>
    /\ c_out = << <<1>>, <<1>> >>

\* C4: the empty frame is encoded as a prefix of four zero bytes, and a call
\* whose input is the encoding of whole frames, the empty frame among them
\* (alone, first, between or after others), returns all of them, the empty
\* frame in its place.
C4_ZeroLengthRoundTrip ==
    /\ get_payload_from_packet(<<>>, host_le) = <<0, 0, 0, 0>>
    /\ \A i, j \in ItemRange :
        (/\ i <= j
         /\ AllFrames(i, j)
         /\ \E k \in i..j : c_items[k].frame = <<>>
         /\ c_last.ended # "none"
         /\ LastStart = Bound(i - 1)
         /\ LastEnd = Bound(j))
            => c_last.packets = FramesOfItems(i, j)

C4_Witness ==
    /\ c_last.data = <<0, 0, 0, 1, 1, 0, 0, 0, 0, 0, 0, 0, 1, 1>>
    /\ c_last.packets = << <<1>>, <<>>, <<1>> >>

(***************************************************************************)
(* Part 2.  PCAP.                                                          *)
(***************************************************************************)
\* 0xA1B2C3D4 as a word
MAGIC_NUMBER == <<161, 178, 195, 212>>

VERSION_MAJOR == 2

VERSION_MINOR == 4

GMT_OFFSET == 0

TIMESTAMP_ACCURACY == 0

MAX_PACKET_LENGTH == 65535

DATA_LINK_TYPE == 1

\* struct.pack("!H", x)
pack_H(x) == << (x \div 256) % 256, x % 256 >>

\* struct.pack("!IHHiIII", ...)
PCAP_HEADER ==
    MAGIC_NUMBER \o pack_H(VERSION_MAJOR) \o pack_H(VERSION_MINOR)
        \o Word(GMT_OFFSET) \o Word(TIMESTAMP_ACCURACY)
        \o Word(MAX_PACKET_LENGTH) \o Word(DATA_LINK_TYPE)

\* the values time.time() returns
Clock ==
    { [seconds |-> 1700000000, microseconds |-> 0],
      [seconds |-> 1700000001, microseconds |-> 999999] }

\* PCAP.get_pcap_from_packet at the time now
get_pcap_from_packet_SnapLength(packet, now) ==
    Word(now.seconds) \o Word(now.microseconds)
        \o Word(MAX_PACKET_LENGTH) \o Word(Len(packet)) \o packet

get_pcap_from_packet(packet, now) ==
    LET reported_length == Len(packet)
        actual_length == reported_length
        header == Word(now.seconds) \o Word(now.microseconds)
                    \o Word(reported_length) \o Word(actual_length)
    IN  header \o packet

(***************************************************************************)
(* Bridge.__init__ and the wiring of Bridge.connect.                       *)
(***************************************************************************)
Range(f) == {f[i] : i \in DOMAIN f}

\* the arguments start_bridge constructs a Bridge from
Configs == [tcp : 0..MaxTcp, sniffer : BOOLEAN, physical : BOOLEAN, tap : BOOLEAN]

Combined(cfg) ==
    [i \in 1..cfg.tcp |-> <<"tcp", i>>]
        \o (IF cfg.sniffer THEN <<SNIFFER>> ELSE <<>>)
        \o (IF cfg.physical THEN <<PHYSICAL>> ELSE <<>>)
        \o (IF cfg.tap THEN <<TAP>> ELSE <<>>)

\* itertools.product(range(n), repeat=2), in its order
index_product(n) == [k \in 1..(n * n) |-> << ((k - 1) \div n) + 1, ((k - 1) % n) + 1 >>]

\* itertools.permutations(range(n), 2), in its order
index_permutations_WithRepeats(n) == index_product(n)

index_permutations_Combinations(n) ==
    SelectSeq(index_product(n), LAMBDA p : p[1] < p[2])

index_permutations(n) == SelectSeq(index_product(n), LAMBDA p : p[1] # p[2])

\* for endpoint, other_endpoint in pairs:
\*     other_endpoint.send_queues.append(endpoint.receive_queue)
RECURSIVE wire(_, _, _)
wire(sq, seq, pairs) ==
    IF pairs = <<>> THEN sq
    ELSE LET endpoint == seq[Head(pairs)[1]]
             other_endpoint == seq[Head(pairs)[2]]
         IN  wire([sq EXCEPT ![other_endpoint] = Append(@, endpoint)],
                  seq, Tail(pairs))

(***************************************************************************)
(* Queues.  An item is the packet and, for the record, the endpoint whose  *)
(* read path put it.                                                       *)
(***************************************************************************)
\* asyncio.Queue.put on a queue without maxsize: the item goes to the end
queue_put_AtHead(queue, item) == <<item>> \o queue

queue_put(queue, item) == Append(queue, item)

\* the loop suspended for good at a queue that holds an item and is not
\* drained, as put() on a full queue of maxsize 1 would suspend it
RECURSIVE put_all_StopsAtFull(_, _, _)
put_all_StopsAtFull(rq, queues, item) ==
    IF queues = <<>> \/ rq[Head(queues)] # <<>> THEN rq
    ELSE put_all_StopsAtFull([rq EXCEPT ![Head(queues)] = queue_put(@, item)],
                             Tail(queues), item)

\* for queue in self.send_queues: await queue.put(packet)
RECURSIVE put_all(_, _, _)
put_all(rq, queues, item) ==
    IF queues = <<>> THEN rq
    ELSE put_all([rq EXCEPT ![Head(queues)] = queue_put(@, item)], Tail(queues), item)

\* for packet in packets: for queue in self.send_queues: ...
RECURSIVE broadcast(_, _, _, _)
broadcast(rq, queues, src, packets) ==
    IF packets = <<>> THEN rq
    ELSE broadcast(put_all(rq, queues, [src |-> src, packet |-> Head(packets)]),
                   queues, src, Tail(packets))

\* for capture_queue in self.capture_queues: await capture_queue.put(pcap)
RECURSIVE put_captures(_, _, _)
put_captures(cq, queues, pcap) ==
    IF queues = <<>> THEN cq
    ELSE put_captures([cq EXCEPT ![Head(queues)] = Append(@, pcap)],
                      Tail(queues), pcap)

(***************************************************************************)
(* What the transports deliver.                                            *)
(***************************************************************************)
\* the peer's framing: the length in network order, then the frame
WireFrame(f) == Word(Len(f)) \o f

\* what one reader.read() of a TCP endpoint returns: a frame, two frames,
\* the first part of a frame, the rest of it, a prefix above the MTU
TcpReads ==
    { WireFrame(<<1>>),
      WireFrame(<<>>) \o WireFrame(<<1, 1>>),
      SubSeq(WireFrame(<<1, 1>>), 1, LENGTH + 1),
      <<1>>,
      Word(MTU + 1) }

\* what one read of a raw socket or a TAP device returns
RawFrames == { <<1>>, <<1, 1>> }

(***************************************************************************)
(* The bridge: construction.                                               *)
(***************************************************************************)
BridgeOf(configs) ==
    /\ host_le \in BOOLEAN
    /\ c_items = <<>> /\ c_stream = <<>> /\ c_buffer = <<>> /\ c_out = <<>>
    /\ c_last = NoCall
    /\ \E cfg \in configs :
        /\ start_args = [cfg |-> cfg, invalid |-> {}]
        /\ combined = Combined(cfg)
    /\ bridge_pc = "constructed"
    /\ send_queues = [e \in Endpoints |-> <<>>]
    /\ receive_queue = [e \in Endpoints |-> <<>>]
    /\ tcp_conn = [e \in TcpEndpoints |-> "none"]
    /\ tcp_buffer = [e \in TcpEndpoints |-> <<>>]
    /\ sniffer_server = "none"
    /\ capture_queues = <<>>
    /\ capture_queue = [s \in Sessions |-> <<>>]
    /\ session = [s \in Sessions |-> NoSession]
    /\ client_stream = [s \in Sessions |-> <<>>]
    /\ written = [e \in Endpoints |-> <<>>]
    /\ extracted = [e \in Endpoints |-> <<>>]
    /\ taken = [e \in Endpoints |-> <<>>]
    /\ forwarded = [s \in Sessions |-> <<>>]
    /\ reads = 0
    /\ NoTasks

\* a bridge of any endpoints
InitBridge == BridgeOf(Configs)

\* a bridge of a sniffer and one raw endpoint, the source of its frames
SnifferConfigs == {cfg \in Configs : cfg.sniffer /\ cfg.tcp = 0 /\ cfg.physical # cfg.tap}

InitSniffer == BridgeOf(SnifferConfigs)

Present(e) == e \in Range(combined)

\* the read handler, the write handler of e is awaiting its next item
Reading(e) == process = "running" /\ read_task[e] = "wait"

Writing(e) == process = "running" /\ write_task[e] = "wait"

RawEndpoints == {PHYSICAL, TAP}

\* Bridge.connect: the wiring loop, then gather starts every endpoint's
\* connect(): a TCP endpoint begins with open_connection, a raw endpoint
\* and the sniffer with the gather of their handlers, and read_tap hands
\* os.read to the executor
BridgeConnect ==
    /\ process = "running"
    /\ bridge_pc = "constructed"
    /\ send_queues' = wire(send_queues, combined, index_permutations(Len(combined)))
    /\ tcp_conn' = [e \in TcpEndpoints |-> IF Present(e) THEN "opening" ELSE "none"]
    /\ bridge_pc' = "running"
    /\ connect_task' = [e \in Endpoints |-> IF Present(e) THEN "running" ELSE "none"]
    /\ read_task' = [e \in Endpoints |->
                        IF Present(e) /\ e \in RawEndpoints THEN "wait" ELSE "none"]
    /\ write_task' = [e \in Endpoints |->
                        IF Present(e) /\ e \notin TcpEndpoints THEN "wait" ELSE "none"]
    /\ tap_worker' = IF Present(TAP) THEN "blocked" ELSE "idle"
    /\ UNCHANGED <<process, signalled>>
    /\ UNCHANGED <<boot_vars, host_le, codec_vars, combined, receive_queue, tcp_buffer,
                   sniffer_server, capture_queues, capture_queue, session,
                   client_stream, written, extracted, taken, forwarded, reads>>

(***************************************************************************)
(* TCPClient.                                                              *)
(***************************************************************************)
\* the receive queue made anew once open_connection has completed
TcpConnected_FreshQueue(e) ==
    /\ process = "running"
    /\ connect_task[e] = "running"
    /\ tcp_conn[e] = "opening"
    /\ tcp_conn' = [tcp_conn EXCEPT ![e] = "up"]
    /\ read_task' = [read_task EXCEPT ![e] = "wait"]
    /\ write_task' = [write_task EXCEPT ![e] = "wait"]
    /\ backlog' = [backlog EXCEPT ![e] = receive_queue[e]]
    /\ receive_queue' = [receive_queue EXCEPT ![e] = <<>>]
    /\ UNCHANGED <<process, signalled, connect_task, tap_worker>>
    /\ UNCHANGED <<start_args, exit_status, unreasonable_at, plan_vars>>
    /\ UNCHANGED <<host_le, codec_vars, combined, bridge_pc, send_queues,
                   tcp_buffer, sniffer_server, capture_queues,
                   capture_queue, session, client_stream, written, extracted,
                   taken, forwarded, reads>>

\* TCPClient.connect: open_connection has completed, the handlers start
\* (the receive queue is the one made in __init__, with what it holds)
TcpConnected(e) ==
    /\ process = "running"
    /\ connect_task[e] = "running"
    /\ tcp_conn[e] = "opening"
    /\ tcp_conn' = [tcp_conn EXCEPT ![e] = "up"]
    /\ read_task' = [read_task EXCEPT ![e] = "wait"]
    /\ write_task' = [write_task EXCEPT ![e] = "wait"]
    /\ backlog' = [backlog EXCEPT ![e] = receive_queue[e]]
    /\ UNCHANGED <<process, signalled, connect_task, tap_worker>>
    /\ UNCHANGED <<start_args, exit_status, unreasonable_at, plan_vars>>
    /\ UNCHANGED <<host_le, codec_vars, combined, bridge_pc, send_queues,
                   receive_queue, tcp_buffer, sniffer_server, capture_queues,
                   capture_queue, session, client_stream, written, extracted,
                   taken, forwarded, reads>>

\* TCPClient.read_handler: one read of data, decoded and broadcast
TcpRead(e, data, limit) ==
    /\ Reading(e)
    /\ tcp_conn[e] = "up"
    /\ reads < limit
    /\ LET r == get_packets_from_tcp_data(tcp_buffer[e], data, host_le)
       IN  /\ tcp_buffer' = [tcp_buffer EXCEPT ![e] = r.buffer]
           /\ receive_queue' = broadcast(receive_queue, send_queues[e], e, r.packets)
           /\ extracted' = [extracted EXCEPT ![e] = @ \o r.packets]
           /\ unreasonable_at' =
                IF r.ended = "oversized"
                THEN [unreasonable_at EXCEPT ![e] = Len(extracted'[e])]
                ELSE unreasonable_at
    /\ reads' = reads + 1
    /\ UNCHANGED <<start_args, exit_status, backlog, plan_vars, host_le, codec_vars,
                   life_vars, combined, bridge_pc, send_queues,
                   tcp_conn, sniffer_server, capture_queues, capture_queue,
                   session, client_stream, written, taken, forwarded>>

\* what write() and drain() do with a payload: it is sent; or, on a
\* connection the peer has left, drain() raises ConnectionResetError or
\* another exception
WriteOutcomes == {"sent", "reset", "error"}

\* TCPClient.write_handler: one item of the receive queue, framed and
\* written; ConnectionResetError ends the loop, another exception is raised
TcpWrite(e, outcome) ==
    /\ Writing(e)
    /\ receive_queue[e] # <<>>
    /\ tcp_conn[e] = "up" => outcome = "sent"
    /\ LET item == Head(receive_queue[e])
           payload == get_payload_from_packet(item.packet, host_le)
       IN  /\ written' = IF tcp_conn[e] = "up"
                         THEN [written EXCEPT ![e] = Append(@, payload)]
                         ELSE written
           /\ taken' = [taken EXCEPT ![e] = Append(@, item)]
    /\ receive_queue' = [receive_queue EXCEPT ![e] = Tail(@)]
    /\ write_task' = [write_task EXCEPT ![e] =
                        CASE outcome = "sent" -> "wait"
                          [] outcome = "reset" -> "returned"
                          [] outcome = "error" -> "raised"]
    /\ UNCHANGED <<process, signalled, connect_task, read_task, tap_worker>>
    /\ UNCHANGED <<boot_vars, host_le, codec_vars, combined, bridge_pc, send_queues,
                   tcp_conn, tcp_buffer, sniffer_server, capture_queues,
                   capture_queue, session, client_stream, extracted, forwarded,
                   reads>>

(***************************************************************************)
(* PhysicalNetworkInterfaceClient and TapInterfaceClient.                  *)
(***************************************************************************)
\* read_physical, read_tap: one frame read and broadcast (at most limit
\* reads in a run)
RawRead(e, packet, limit) ==
    /\ e \in RawEndpoints
    /\ Reading(e)
    /\ reads < limit
    /\ receive_queue' = broadcast(receive_queue, send_queues[e], e, <<packet>>)
    /\ extracted' = [extracted EXCEPT ![e] = Append(@, packet)]
    /\ reads' = reads + 1
    /\ UNCHANGED <<boot_vars, host_le, codec_vars, life_vars, combined, bridge_pc, send_queues,
                   tcp_conn, tcp_buffer, sniffer_server, capture_queues,
                   capture_queue, session, client_stream, written, taken,
                   forwarded>>

\* if not packet: continue
skips_packet_Never(packet) == FALSE

skips_packet(packet) == packet = <<>>

\* a write loop that ends at an empty packet (break for continue)
RawWrite_StopsOnEmpty(e) ==
    /\ e \in RawEndpoints
    /\ Writing(e)
    /\ receive_queue[e] # <<>>
    /\ LET item == Head(receive_queue[e])
       IN  /\ written' = IF skips_packet(item.packet) THEN written
                         ELSE [written EXCEPT ![e] = Append(@, item.packet)]
           /\ taken' = [taken EXCEPT ![e] = Append(@, item)]
           /\ write_task' = IF skips_packet(item.packet)
                            THEN [write_task EXCEPT ![e] = "returned"]
                            ELSE write_task
    /\ receive_queue' = [receive_queue EXCEPT ![e] = Tail(@)]
    /\ UNCHANGED <<process, signalled, connect_task, read_task, tap_worker>>
    /\ UNCHANGED <<boot_vars, host_le, codec_vars, combined, bridge_pc, send_queues,
                   tcp_conn, tcp_buffer, sniffer_server, capture_queues,
                   capture_queue, session, client_stream, extracted, forwarded,
                   reads>>

\* write_physical, write_tap: one item of the receive queue; an empty packet
\* is skipped, any other is written as it is
RawWrite(e) ==
    /\ e \in RawEndpoints
    /\ Writing(e)
    /\ receive_queue[e] # <<>>
    /\ LET item == Head(receive_queue[e])
       IN  /\ written' = IF skips_packet(item.packet) THEN written
                         ELSE [written EXCEPT ![e] = Append(@, item.packet)]
           /\ taken' = [taken EXCEPT ![e] = Append(@, item)]
    /\ receive_queue' = [receive_queue EXCEPT ![e] = Tail(@)]
    /\ UNCHANGED <<boot_vars, host_le, codec_vars, life_vars, combined, bridge_pc, send_queues,
                   tcp_conn, tcp_buffer, sniffer_server, capture_queues,
                   capture_queue, session, client_stream, extracted, forwarded,
                   reads>>

(***************************************************************************)
(* TCPSnifferServer.                                                       *)
(***************************************************************************)
\* TCPSnifferServer.connect: start_server has run, the server listens
SnifferServe ==
    /\ process = "running"
    /\ connect_task[SNIFFER] = "running"
    /\ sniffer_server = "none"
    /\ sniffer_server' = "listening"
    /\ UNCHANGED <<boot_vars, host_le, codec_vars, life_vars, combined, bridge_pc, send_queues,
                   receive_queue, tcp_conn, tcp_buffer, capture_queues,
                   capture_queue, session, client_stream, written, extracted,
                   taken, forwarded, reads>>

\* a forwarder that leaves the items on the receive queue while no capture
\* queue is registered
SnifferForward_WaitsForClient ==
    /\ Writing(SNIFFER)
    /\ receive_queue[SNIFFER] # <<>>
    /\ capture_queues # <<>>
    /\ LET item == Head(receive_queue[SNIFFER])
       IN  /\ \E now \in Clock :
                capture_queue' = put_captures(capture_queue, capture_queues,
                                    get_pcap_from_packet(item.packet, now))
           /\ taken' = [taken EXCEPT ![SNIFFER] = Append(@, item)]
           /\ forwarded' = [s \in Sessions |->
                              IF s \in Range(capture_queues)
                              THEN Append(forwarded[s], item.packet)
                              ELSE forwarded[s]]
    /\ receive_queue' = [receive_queue EXCEPT ![SNIFFER] = Tail(@)]
    /\ UNCHANGED <<boot_vars, host_le, codec_vars, life_vars, combined, bridge_pc, send_queues,
                   tcp_conn, tcp_buffer, sniffer_server, capture_queues,
                   session, client_stream, written, extracted, reads>>

\* forward_payloads_to_sessions: one item of the receive queue, wrapped and
\* put on every capture queue (on none when capture_queues is empty)
SnifferForward ==
    /\ Writing(SNIFFER)
    /\ receive_queue[SNIFFER] # <<>>
    /\ LET item == Head(receive_queue[SNIFFER])
       IN  /\ \E now \in Clock :
                capture_queue' = put_captures(capture_queue, capture_queues,
                                    get_pcap_from_packet(item.packet, now))
           /\ taken' = [taken EXCEPT ![SNIFFER] = Append(@, item)]
           /\ forwarded' = [s \in Sessions |->
                              IF s \in Range(capture_queues)
                              THEN Append(forwarded[s], item.packet)
                              ELSE forwarded[s]]
    /\ receive_queue' = [receive_queue EXCEPT ![SNIFFER] = Tail(@)]
    /\ UNCHANGED <<boot_vars, host_le, codec_vars, life_vars, combined, bridge_pc, send_queues,
                   tcp_conn, tcp_buffer, sniffer_server, capture_queues,
                   session, client_stream, written, extracted, reads>>

\* len(self.capture_queues) >= MAX_CAPTURE_CONNECTIONS
max_connections_reached_Above(n) == n > MAX_CAPTURE_CONNECTIONS

max_connections_reached(n) == n >= MAX_CAPTURE_CONNECTIONS

\* capture_queues as the rejecting branch of start_session leaves it
capture_queues_on_reject_Cleared(queues) == <<>>

capture_queues_on_reject(queues) == queues

\* capture_queue = asyncio.Queue(); await capture_queue.put(PCAP.HEADER)
new_capture_queue_Empty == <<>>

new_capture_queue == <<PCAP_HEADER>>

\* start_session for the connection of client s, up to its first suspension:
\* the connection is closed, or a capture queue holding the header is
\* registered and the two handlers are started
StartSession(s) ==
    /\ process = "running"
    /\ sniffer_server = "listening"
    /\ session[s].state = "none"
    /\ \A t \in Sessions : t < s => session[t].state # "none"
    /\ LET seen == Len(capture_queues)
       IN  IF max_connections_reached(seen)
           THEN /\ session' = [session EXCEPT ![s] =
                        [state |-> "rejected", seen |-> seen,
                         at |-> Len(taken[SNIFFER]), wr |-> "none",
                         rd |-> "none", link |-> "closed_by_server",
                         discarded |-> 0]]
                /\ capture_queues' = capture_queues_on_reject(capture_queues)
                /\ UNCHANGED capture_queue
           ELSE /\ capture_queue' = [capture_queue EXCEPT ![s] = new_capture_queue]
                /\ capture_queues' = Append(capture_queues, s)
                /\ session' = [session EXCEPT ![s] =
                        [state |-> "active", seen |-> seen,
                         at |-> Len(taken[SNIFFER]), wr |-> "wait",
                         rd |-> "wait", link |-> "up", discarded |-> 0]]
    /\ UNCHANGED <<boot_vars, host_le, codec_vars, life_vars, combined, bridge_pc, send_queues,
                   receive_queue, tcp_conn, tcp_buffer, sniffer_server,
                   client_stream, written, extracted, taken, forwarded, reads>>

\* the session's write_handler: one item of the capture queue written to the
\* client; once the client is gone the write is lost, and drain() may raise
SessionWrite(s, reset) ==
    /\ process = "running"
    /\ session[s].state = "active"
    /\ session[s].wr = "wait"
    /\ capture_queue[s] # <<>>
    /\ capture_queue' = [capture_queue EXCEPT ![s] = Tail(@)]
    /\ IF session[s].link = "up"
       THEN /\ ~reset
            /\ client_stream' = [client_stream EXCEPT ![s] =
                                    Append(@, Head(capture_queue[s]))]
            /\ UNCHANGED session
       ELSE /\ session' = [session EXCEPT ![s].wr = IF reset THEN "done" ELSE "wait"]
            /\ UNCHANGED client_stream
    /\ UNCHANGED <<boot_vars, host_le, codec_vars, life_vars, combined, bridge_pc, send_queues,
                   receive_queue, tcp_conn, tcp_buffer, sniffer_server,
                   capture_queues, written, extracted, taken, forwarded, reads>>

\* the client of session s closes its connection
ClientDisconnect(s) ==
    /\ session[s].state = "active"
    /\ session[s].link = "up"
    /\ session' = [session EXCEPT ![s].link = "closed_by_client"]
    /\ UNCHANGED <<boot_vars, host_le, codec_vars, life_vars, combined, bridge_pc, send_queues,
                   receive_queue, tcp_conn, tcp_buffer, sniffer_server,
                   capture_queues, capture_queue, client_stream, written,
                   extracted, taken, forwarded, reads>>

\* the session's read_handler: an empty read, the loop ends
SessionReadEnd(s) ==
    /\ process = "running"
    /\ session[s].state = "active"
    /\ session[s].rd = "wait"
    /\ session[s].link = "closed_by_client"
    /\ session' = [session EXCEPT ![s].rd = "done"]
    /\ UNCHANGED <<boot_vars, host_le, codec_vars, life_vars, combined, bridge_pc, send_queues,
                   receive_queue, tcp_conn, tcp_buffer, sniffer_server,
                   capture_queues, capture_queue, client_stream, written,
                   extracted, taken, forwarded, reads>>

\* start_session: gather has returned, finally removes the capture queue
SessionEnd(s) ==
    /\ process = "running"
    /\ session[s].state = "active"
    /\ session[s].wr = "done"
    /\ session[s].rd = "done"
    /\ capture_queues' = SelectSeq(capture_queues, LAMBDA q : q # s)
    /\ session' = [session EXCEPT ![s].state = "ended"]
    /\ UNCHANGED <<boot_vars, host_le, codec_vars, life_vars, combined, bridge_pc, send_queues,
                   receive_queue, tcp_conn, tcp_buffer, sniffer_server,
                   capture_queue, client_stream, written, extracted, taken,
                   forwarded, reads>>

\* the data plane while no capture client connects
NextBridge ==
    \/ BridgeConnect
    \/ \E e \in TcpEndpoints : TcpConnected(e)
    \/ \E e \in TcpEndpoints : \E data \in TcpReads : TcpRead(e, data, MaxReads)
    \/ \E e \in TcpEndpoints : TcpWrite(e, "sent")
    \/ \E e \in RawEndpoints : \E packet \in RawFrames : RawRead(e, packet, MaxReads)
    \/ \E e \in RawEndpoints : RawWrite(e)
    \/ SnifferServe
    \/ SnifferForward

SpecBridge == InitBridge /\ [][NextBridge]_vars

\* the sniffer and its capture clients, fed by one raw endpoint
NextSniffer ==
    \/ BridgeConnect
    \/ \E e \in RawEndpoints : \E packet \in RawFrames : RawRead(e, packet, MaxCaptures)
    \/ SnifferServe
    \/ SnifferForward
    \/ \E s \in Sessions : StartSession(s)
    \/ \E s \in Sessions : \E reset \in BOOLEAN : SessionWrite(s, reset)
    \/ \E s \in Sessions : ClientDisconnect(s)
    \/ \E s \in Sessions : SessionReadEnd(s)
    \/ \E s \in Sessions : SessionEnd(s)

SpecSniffer == InitSniffer /\ [][NextSniffer]_vars

(***************************************************************************)
(* The claims about the data plane.                                        *)
(***************************************************************************)
PacketsOf(items) == [i \in DOMAIN items |-> items[i].packet]

\* the packets A's read path has put on B's receive queue, in order
PacketsFrom(A, B) ==
    PacketsOf(SelectSeq(taken[B] \o receive_queue[B], LAMBDA item : item.src = A))

\* C2: in a bridge of three or more endpoints, every frame the read path of
\* an endpoint A obtained is on the receive queue of every other endpoint
\* (or was, and has been dequeued), and none of them on A's own.
C2_FullMeshFlood ==
    Len(combined) >= 3 =>
        \A A \in Range(combined) : \A B \in Range(combined) :
            PacketsFrom(A, B) = IF A = B THEN <<>> ELSE extracted[A]

C2_Witness ==
    /\ Len(combined) >= 4
    /\ extracted[<<"tcp", 2>>] = << <<>>, <<1, 1>> >>
    /\ PacketsOf(receive_queue[<<"tcp", 1>>]) = << <<>>, <<1, 1>> >>
    /\ PacketsOf(taken[TAP]) = << <<>>, <<1, 1>> >>
    /\ receive_queue[<<"tcp", 2>>] = <<>>

\* C5: capture_queues never holds more than MAX_CAPTURE_CONNECTIONS queues,
\* and a connection that arrives while a session is registered is closed
\* and never registered.
C5_AtMostOneSession ==
    /\ Len(capture_queues) <= MAX_CAPTURE_CONNECTIONS
    /\ \A s \in Sessions :
        session[s].seen >= 1 =>
            /\ session[s].state = "rejected"
            /\ session[s].link = "closed_by_server"
            /\ s \notin Range(capture_queues)
            /\ capture_queue[s] = <<>>

C5_Witness ==
    /\ session[1].state = "active"
    /\ session[2].state = "rejected"
    /\ session[2].seen = 1
    /\ capture_queues = <<1>>
    /\ forwarded[1] # <<>>
    /\ receive_queue[SNIFFER] # <<>>

\* the payloads of the records a session's client has received and of those
\* still on its capture queue
Pending(s) == Tail(client_stream[s] \o capture_queue[s])

\* C6: start_session, run while a session is active, closes the new
\* connection and changes nothing else: not capture_queues, not a capture
\* queue, not another session's handlers or stream; and the active client's
\* records, received or still queued, are the frames forwarded since its
\* session began, in order.
C6_RejectLeavesSessionAlone ==
    /\ [][\A s \in Sessions :
            (session[s].state = "none" /\ session'[s].state = "rejected")
                => /\ session'[s].link = "closed_by_server"
                   /\ capture_queues' = capture_queues
                   /\ capture_queue' = capture_queue
                   /\ client_stream' = client_stream
                   /\ forwarded' = forwarded
                   /\ receive_queue' = receive_queue
                   /\ \A t \in Sessions \ {s} : session'[t] = session[t]]_vars
    /\ [](\A s \in Sessions :
            (session[s].state = "active" /\ session[s].link = "up")
                => /\ Len(Pending(s)) = Len(forwarded[s])
                   /\ \A i \in DOMAIN forwarded[s] :
                        SubSeq(Pending(s)[i], 17, Len(Pending(s)[i])) = forwarded[s][i])

C6_Witness ==
    /\ session[1].state = "active"
    /\ session[2].state = "rejected"
    /\ session[2].at = 0
    /\ Len(client_stream[1]) = 3
    /\ forwarded[1] = << <<1>>, <<1, 1>> >>

\* the 24 bytes of the reference header: magic 0xA1B2C3D4, version 2.4,
\* offset 0, accuracy 0, snapshot length 65535, link type 1, big-endian
ReferenceHeader ==
    << 161, 178, 195, 212,  0, 2,  0, 4,  0, 0, 0, 0,  0, 0, 0, 0,
       0, 0, 255, 255,  0, 0, 0, 1 >>

\* C7: the first write to the client of an accepted session is the 24-byte
\* reference header, no later write is, and until it is written it is the
\* head of the session's capture queue, ahead of every record.
C7_HeaderFirstOnce ==
    \A s \in Sessions :
        /\ client_stream[s] # <<>> =>
            /\ client_stream[s][1] = ReferenceHeader
            /\ \A i \in 2..Len(client_stream[s]) : client_stream[s][i] # ReferenceHeader
            /\ \A i \in DOMAIN capture_queue[s] : capture_queue[s][i] # ReferenceHeader
        /\ (session[s].state = "active" /\ client_stream[s] = <<>>
                /\ session[s].link = "up") =>
            /\ capture_queue[s] # <<>>
            /\ Head(capture_queue[s]) = ReferenceHeader
            /\ \A i \in 2..Len(capture_queue[s]) : capture_queue[s][i] # ReferenceHeader

C7_Witness ==
    /\ session[1].state = "active"
    /\ session[1].at = 1
    /\ Len(client_stream[1]) = 2
    /\ client_stream[1][1] = ReferenceHeader

\* C8: the i-th record a client receives is a 16-byte header followed by
\* the i-th frame forwarded during its session, unchanged, and the third and
\* the fourth field of the header are the length of that frame.
C8_RecordContent ==
    \A s \in Sessions :
        /\ Len(client_stream[s]) <= 1 + Len(forwarded[s])
        /\ \A i \in 2..Len(client_stream[s]) :
            LET record == client_stream[s][i]
                p == forwarded[s][i - 1]
            IN  /\ Len(record) = 16 + Len(p)
                /\ SubSeq(record, 17, Len(record)) = p
                /\ SubSeq(record, 9, 12) = Word(Len(p))
                /\ SubSeq(record, 13, 16) = Word(Len(p))

C8_Witness ==
    /\ Len(client_stream[1]) = 3
    /\ forwarded[1] = << <<1>>, <<1, 1>> >>
    /\ SubSeq(client_stream[1][2], 9, 17) = <<0, 0, 0, 1, 0, 0, 0, 1, 1>>
    /\ SubSeq(client_stream[1][3], 9, 18) = <<0, 0, 0, 2, 0, 0, 0, 2, 1, 1>>

(***************************************************************************)
(* Part 3: the tasks of the process.                                       *)
(*                                                                         *)
(* start_bridge runs connect(bridge) under asyncio.run.  Bridge.connect    *)
(* awaits the gather of every endpoint's connect(); an endpoint's          *)
(* connect() awaits the gather of its two handlers.  Neither gather is     *)
(* given return_exceptions: it returns when every child has returned, and  *)
(* raises as soon as one child raises, leaving the other children running. *)
(***************************************************************************)
\* TCPClient.connect: open_connection raises (the peer refuses); the
\* exception is not CancelledError and leaves connect()
TcpConnectFail(e) ==
    /\ process = "running"
    /\ connect_task[e] = "running"
    /\ tcp_conn[e] = "opening"
    /\ tcp_conn' = [tcp_conn EXCEPT ![e] = "refused"]
    /\ connect_task' = [connect_task EXCEPT ![e] = "raised"]
    /\ UNCHANGED <<process, signalled, read_task, write_task, tap_worker>>
    /\ UNCHANGED <<boot_vars, host_le, codec_vars, combined, bridge_pc, send_queues,
                   receive_queue, tcp_buffer, sniffer_server, capture_queues,
                   capture_queue, session, client_stream, written, extracted,
                   taken, forwarded, reads>>

\* how a TCP connection fails under read_handler: an empty read, a
\* ConnectionResetError, another exception
ReadFailures == {"empty", "reset", "error"}

\* the send_queues lists when a read handler ends: no statement of the
\* handler, or of anything but the wiring loop, touches them
send_queues_on_failure_Unwired(queues, e) ==
    [y \in DOMAIN queues |-> SelectSeq(queues[y], LAMBDA q : q # e)]

send_queues_on_failure(queues, e) == queues

\* TCPClient.read_handler: reader.read() returns b"" or raises; the empty
\* read and ConnectionResetError break the loop and the handler returns,
\* another exception propagates
TcpReadEnd(e, failure) ==
    /\ Reading(e)
    /\ tcp_conn[e] = "up"
    /\ tcp_conn' = [tcp_conn EXCEPT ![e] = "closed"]
    /\ read_task' = [read_task EXCEPT ![e] =
                        IF failure = "error" THEN "raised" ELSE "returned"]
    /\ send_queues' = send_queues_on_failure(send_queues, e)
    /\ UNCHANGED <<process, signalled, connect_task, write_task, tap_worker>>
    /\ UNCHANGED <<boot_vars, host_le, codec_vars, combined, bridge_pc,
                   receive_queue, tcp_buffer, sniffer_server, capture_queues,
                   capture_queue, session, client_stream, written, extracted,
                   taken, forwarded, reads>>

\* read_physical, read_tap: sock_recv or os.read raises; nothing but
\* CancelledError is caught, the exception propagates
RawReadFail(e) ==
    /\ e \in RawEndpoints
    /\ Reading(e)
    /\ read_task' = [read_task EXCEPT ![e] = "raised"]
    /\ tap_worker' = IF e = TAP THEN "idle" ELSE tap_worker
    /\ UNCHANGED <<process, signalled, connect_task, write_task>>
    /\ UNCHANGED <<boot_vars, host_le, codec_vars, bridge_vars>>

\* an endpoint's connect(): its gather returns, both handlers have returned
EndpointReturn(e) ==
    /\ process = "running"
    /\ connect_task[e] = "running"
    /\ read_task[e] = "returned"
    /\ write_task[e] = "returned"
    /\ connect_task' = [connect_task EXCEPT ![e] = "returned"]
    /\ UNCHANGED <<process, signalled, read_task, write_task, tap_worker>>
    /\ UNCHANGED <<boot_vars, host_le, codec_vars, bridge_vars>>

\* an endpoint's connect(): its gather raises what a handler raised; only
\* CancelledError is caught
EndpointRaise(e) ==
    /\ process = "running"
    /\ connect_task[e] = "running"
    /\ read_task[e] = "raised" \/ write_task[e] = "raised"
    /\ connect_task' = [connect_task EXCEPT ![e] = "raised"]
    /\ UNCHANGED <<process, signalled, read_task, write_task, tap_worker>>
    /\ UNCHANGED <<boot_vars, host_le, codec_vars, bridge_vars>>

\* Bridge.connect: await group returns, every endpoint's connect() has
\* returned; connect(bridge) returns, asyncio.run goes on to cancel what
\* is left
BridgeReturn ==
    /\ process = "running"
    /\ bridge_pc = "running"
    /\ \A e \in Range(combined) : connect_task[e] = "returned"
    /\ bridge_pc' = "returned"
    /\ process' = "cancelling"
    /\ UNCHANGED <<signalled, connect_task, read_task, write_task, tap_worker>>
    /\ UNCHANGED <<boot_vars, host_le, codec_vars, combined, send_queues, receive_queue,
                   tcp_conn, tcp_buffer, sniffer_server, capture_queues,
                   capture_queue, session, client_stream, written, extracted,
                   taken, forwarded, reads>>

\* Bridge.connect: await group raises what an endpoint's connect() raised;
\* it is not CancelledError, so it leaves Bridge.connect and connect(bridge),
\* and asyncio.run goes on to cancel what is left
BridgeRaise ==
    /\ process = "running"
    /\ bridge_pc = "running"
    /\ \E e \in Range(combined) : connect_task[e] = "raised"
    /\ bridge_pc' = "raised"
    /\ process' = "cancelling"
    /\ UNCHANGED <<signalled, connect_task, read_task, write_task, tap_worker>>
    /\ UNCHANGED <<boot_vars, host_le, codec_vars, combined, send_queues, receive_queue,
                   tcp_conn, tcp_buffer, sniffer_server, capture_queues,
                   capture_queue, session, client_stream, written, extracted,
                   taken, forwarded, reads>>

\* signal_handler on SIGINT or SIGTERM: loop.stop(), sleep, sys.exit();
\* SystemExit leaves the loop and asyncio.run goes on to cancel every task
Signal ==
    /\ process = "running"
    /\ bridge_pc = "running"
    /\ process' = "cancelling"
    /\ signalled' = TRUE
    /\ UNCHANGED <<connect_task, read_task, write_task, tap_worker>>
    /\ UNCHANGED <<boot_vars, host_le, codec_vars, bridge_vars>>

\* a read handler receives CancelledError at its await and re-raises it;
\* the os.read that read_tap handed to the executor is not interrupted
ReadCancelled(e) ==
    /\ process = "cancelling"
    /\ read_task[e] = "wait"
    /\ read_task' = [read_task EXCEPT ![e] = "cancelled"]
    /\ UNCHANGED <<process, signalled, connect_task, write_task, tap_worker>>
    /\ UNCHANGED <<boot_vars, host_le, codec_vars, bridge_vars>>

\* a write handler, the sniffer's forwarder, receives CancelledError at its
\* await and re-raises it
WriteCancelled(e) ==
    /\ process = "cancelling"
    /\ write_task[e] = "wait"
    /\ write_task' = [write_task EXCEPT ![e] = "cancelled"]
    /\ UNCHANGED <<process, signalled, connect_task, read_task, tap_worker>>
    /\ UNCHANGED <<boot_vars, host_le, codec_vars, bridge_vars>>

\* an endpoint's connect(): except asyncio.CancelledError: return
EndpointCancelled(e) ==
    /\ process = "cancelling"
    /\ connect_task[e] = "running"
    /\ read_task[e] # "wait"
    /\ write_task[e] # "wait"
    /\ connect_task' = [connect_task EXCEPT ![e] = "returned"]
    /\ UNCHANGED <<process, signalled, read_task, write_task, tap_worker>>
    /\ UNCHANGED <<boot_vars, host_le, codec_vars, bridge_vars>>

\* Bridge.connect: except asyncio.CancelledError: group.cancel(); return
BridgeCancelled ==
    /\ process = "cancelling"
    /\ bridge_pc = "running"
    /\ \A e \in Range(combined) : connect_task[e] # "running"
    /\ bridge_pc' = "returned"
    /\ UNCHANGED life_vars
    /\ UNCHANGED <<boot_vars, host_le, codec_vars, combined, send_queues, receive_queue,
                   tcp_conn, tcp_buffer, sniffer_server, capture_queues,
                   capture_queue, session, client_stream, written, extracted,
                   taken, forwarded, reads>>

\* a session's handler receives CancelledError at its await and re-raises it
cancel_handler(state) == IF state = "wait" THEN "cancelled" ELSE state

\* start_session and its two handlers are cancelled; finally removes the
\* capture queue
SessionCancelled(s) ==
    /\ process = "cancelling"
    /\ session[s].state = "active"
    /\ session' = [session EXCEPT ![s].state = "cancelled",
                                  ![s].wr = cancel_handler(@),
                                  ![s].rd = cancel_handler(@)]
    /\ capture_queues' = SelectSeq(capture_queues, LAMBDA q : q # s)
    /\ UNCHANGED life_vars
    /\ UNCHANGED <<boot_vars, host_le, codec_vars, combined, bridge_pc, send_queues,
                   receive_queue, tcp_conn, tcp_buffer, sniffer_server,
                   capture_queue, client_stream, written, extracted, taken,
                   forwarded, reads>>

\* no task of the loop is left to run
TasksDone ==
    /\ bridge_pc # "running"
    /\ \A e \in Endpoints :
        /\ connect_task[e] # "running"
        /\ read_task[e] # "wait"
        /\ write_task[e] # "wait"
    /\ \A s \in Sessions : session[s].state # "active"

\* asyncio.run: every task it cancelled is done; it shuts the default
\* executor down, which joins the executor's thread
TasksCancelled ==
    /\ process = "cancelling"
    /\ TasksDone
    /\ process' = "joining"
    /\ UNCHANGED <<signalled, connect_task, read_task, write_task, tap_worker>>
    /\ UNCHANGED <<boot_vars, host_le, codec_vars, bridge_vars>>

\* a frame arrives on the TAP device after read_tap has gone: os.read
\* returns in the executor's thread, nobody takes the frame
TapWorkerReturn ==
    /\ tap_worker = "blocked"
    /\ read_task[TAP] # "wait"
    /\ tap_worker' = "idle"
    /\ UNCHANGED <<process, signalled, connect_task, read_task, write_task>>
    /\ UNCHANGED <<boot_vars, host_le, codec_vars, bridge_vars>>

\* how asyncio.run(connect(bridge)) can end: it returns, or it raises
\* SystemExit, another exception, or CancelledError
RunOutcomes == {"returned", "SystemExit", "Exception", "CancelledError"}

\* how asyncio.run(connect(bridge)) ends: signal_handler's sys.exit() is
\* raised in the loop; or connect(bridge) raised what Bridge.connect raised;
\* or it returned (Bridge.connect and connect catch CancelledError)
run_outcome ==
    IF signalled THEN "SystemExit"
    ELSE IF bridge_pc = "raised" THEN "Exception"
    ELSE "returned"

\* start_bridge after asyncio.run: a return is followed by
\* error_exit("exiting"); except asyncio.CancelledError logs and falls
\* through, so start_bridge returns; except BaseException calls error_exit
start_bridge_ends_ReturnAfterRun(outcome) ==
    IF outcome \in {"CancelledError", "returned"} THEN 0 ELSE 1

start_bridge_ends(outcome) == IF outcome = "CancelledError" THEN 0 ELSE 1

\* asyncio.run returns or raises once the executor's thread is joined;
\* start_bridge calls error_exit
ProcessExit ==
    /\ process = "joining"
    /\ tap_worker = "idle"
    /\ process' = "exited"
    /\ exit_status' = start_bridge_ends(run_outcome)
    /\ UNCHANGED <<signalled, connect_task, read_task, write_task, tap_worker>>
    /\ UNCHANGED <<start_args, unreasonable_at, backlog, plan_vars, host_le, codec_vars, bridge_vars>>

\* the bridges of at most MaxLifeEndpoints endpoints
LifeConfigs == {cfg \in Configs : Len(Combined(cfg)) <= MaxLifeEndpoints}

\* the one read of the peers of this part: a whole frame
LifeReads == {WireFrame(<<1>>)}

InitLife == BridgeOf(LifeConfigs)

\* what the peers, the devices, the capture clients and the operator do
Environment ==
    \/ \E e \in TcpEndpoints : TcpConnected(e)
    \/ \E e \in TcpEndpoints : TcpConnectFail(e)
    \/ \E e \in TcpEndpoints : \E data \in LifeReads : TcpRead(e, data, MaxLifeReads)
    \/ \E e \in TcpEndpoints : \E failure \in ReadFailures : TcpReadEnd(e, failure)
    \/ \E e \in RawEndpoints : RawReadFail(e)
    \/ \E s \in Sessions : StartSession(s)
    \/ Signal
    \/ TapWorkerReturn

\* the steps the event loop takes on its own
Program ==
    \/ BridgeConnect
    \/ SnifferServe
    \/ \E e \in TcpEndpoints : \E outcome \in WriteOutcomes : TcpWrite(e, outcome)
    \/ \E e \in Endpoints : EndpointReturn(e)
    \/ \E e \in Endpoints : EndpointRaise(e)
    \/ BridgeReturn
    \/ BridgeRaise
    \/ \E e \in Endpoints : ReadCancelled(e)
    \/ \E e \in Endpoints : WriteCancelled(e)
    \/ \E e \in Endpoints : EndpointCancelled(e)
    \/ BridgeCancelled
    \/ \E s \in Sessions : SessionCancelled(s)
    \/ TasksCancelled
    \/ ProcessExit

NextLife == Environment \/ Program

SpecLife == InitLife /\ [][NextLife]_vars

\* the event loop runs a task that can run; the environment owes nothing
FairLife == SpecLife /\ WF_vars(Program)

(***************************************************************************)
(* The claims about the tasks.                                             *)
(***************************************************************************)
\* no task is left to run and no thread of the executor is left in a read
NoTaskRunnable == TasksDone /\ tap_worker = "idle"

\* C9: once the signal has cancelled the bridge, eventually every read and
\* write task has stopped (the executor's os.read of read_tap, the
\* sniffer's forwarder and the handlers of its sessions included), no task
\* is left to run, and the process has exited.
C9_CancellationTerminates ==
    signalled ~> (process = "exited" /\ NoTaskRunnable)

\* the transport of endpoint e has failed: its connection was refused, was
\* reset or gave an empty read, or its device raised an error
TransportFailed(e) ==
    \/ e \in TcpEndpoints /\ tcp_conn[e] \in {"closed", "refused"}
    \/ read_task[e] = "raised"

\* C10 (for a bridge of two or more endpoints, none of them a TAP): once the
\* transport of one endpoint has failed, eventually that endpoint's tasks have ended,
\* Bridge.connect() has completed and the process has exited.
C10_FailureBringsBridgeDown ==
    \A e \in Endpoints :
        (TransportFailed(e) /\ ~Present(TAP) /\ Len(combined) >= 2)
            ~> (/\ read_task[e] # "wait" /\ write_task[e] # "wait"
                /\ bridge_pc \in {"returned", "raised"}
                /\ process = "exited")

\* C11: start_bridge has no successful terminal state.  On every path on
\* which it stops running (a fatal error inside an endpoint, the signal,
\* Bridge.connect returning normally) the process ends with exit status 1,
\* never 0, and until the process has ended no exit status exists at all:
\* start_bridge never returns to its caller.
C11_NoSuccessfulExit ==
    /\ exit_status # 0
    /\ process = "exited" => exit_status = 1
    /\ process # "exited" => exit_status = -1

C11_Witness ==
    /\ process = "exited"
    /\ ~signalled
    /\ combined # <<>>
    /\ bridge_pc = "returned"
    /\ exit_status = 1

(***************************************************************************)
(* Part 4.  start_bridge before asyncio.run: the endpoints are constructed *)
(* one after the other, synchronously, and then the Bridge.                *)
(***************************************************************************)
\* the endpoints whose construction can fail: PhysicalNetworkInterfaceClient
\* raises RuntimeError on an interface that is not promiscuous (and OSError
\* from its socket), TapInterfaceClient raises OSError from os.open and
\* ioctl, and a TCP target is rejected when split(":"), IPv4Address(host)
\* or int(port) raises; TCPSnifferServer.__init__ only stores its arguments
Fallible == TcpEndpoints \cup {PHYSICAL, TAP}

\* the arguments of start_bridge: the endpoints asked for, and those of
\* them whose construction fails
StartArgs ==
    UNION {{[cfg |-> cfg, invalid |-> inv] :
                inv \in SUBSET (Range(Combined(cfg)) \cap Fallible)} :
           cfg \in Configs}

\* the order in which start_bridge constructs: physical, TAP, sniffer, then
\* the TCP targets in the order of the list
construction_order(cfg) ==
    (IF cfg.physical THEN <<PHYSICAL>> ELSE <<>>)
        \o (IF cfg.tap THEN <<TAP>> ELSE <<>>)
        \o (IF cfg.sniffer THEN <<SNIFFER>> ELSE <<>>)
        \o [i \in 1..cfg.tcp |-> <<"tcp", i>>]

\* the endpoint at which start_bridge stops: the constructor that raises
\* is not inside any try, and error_exit's SystemExit is not an Exception,
\* so the loop over the TCP targets does not go on after a bad target
stops_at_OnlyConstructors(e, args) == e \in args.invalid /\ e \notin TcpEndpoints

stops_at(e, args) == e \in args.invalid

\* the position in construction_order of the first failure, 0 if none
first_failure(args) ==
    LET order == construction_order(args.cfg)
        failing == {i \in DOMAIN order : stops_at(order[i], args)}
    IN  IF failing = {} THEN 0
        ELSE CHOOSE i \in failing : \A j \in failing : i <= j

\* the instances handed to Bridge(...), in the order of Bridge._combined
instances(args) ==
    SelectSeq(Combined(args.cfg), LAMBDA e : e \notin args.invalid)

\* start_bridge up to asyncio.run: a failing constructor ends the process
\* with status 1 (error_exit, or the interpreter's exit on the uncaught
\* RuntimeError / OSError); otherwise the Bridge is constructed
StartBridge ==
    /\ process = "running"
    /\ bridge_pc = "none"
    /\ IF first_failure(start_args) # 0
       THEN /\ process' = "exited"
            /\ exit_status' = 1
            /\ UNCHANGED <<combined, bridge_pc>>
       ELSE /\ combined' = instances(start_args)
            /\ bridge_pc' = "constructed"
            /\ UNCHANGED <<process, exit_status>>
    /\ UNCHANGED <<start_args, unreasonable_at, backlog, plan_vars, signalled, connect_task,
                   read_task, write_task, tap_worker>>
    /\ UNCHANGED <<host_le, codec_vars, send_queues, receive_queue, tcp_conn,
                   tcp_buffer, sniffer_server, capture_queues, capture_queue,
                   session, client_stream, written, extracted, taken,
                   forwarded, reads>>

InitStart ==
    /\ host_le \in BOOLEAN
    /\ c_items = <<>> /\ c_stream = <<>> /\ c_buffer = <<>> /\ c_out = <<>>
    /\ c_last = NoCall
    /\ start_args \in StartArgs
    /\ BridgeIdle

\* start_bridge, and the first steps of the tasks asyncio.run starts
NextStart ==
    \/ StartBridge
    \/ BridgeConnect
    \/ \E e \in TcpEndpoints : TcpConnected(e)
    \/ \E e \in TcpEndpoints : TcpConnectFail(e)
    \/ SnifferServe

SpecStart == InitStart /\ [][NextStart]_vars

\* no endpoint's connect() runs, no handler, no connection, no server
NothingStarted ==
    /\ bridge_pc = "none"
    /\ combined = <<>>
    /\ \A e \in Endpoints :
        /\ connect_task[e] = "none"
        /\ read_task[e] = "none"
        /\ write_task[e] = "none"
    /\ \A e \in TcpEndpoints : tcp_conn[e] = "none"
    /\ sniffer_server = "none"
    /\ tap_worker = "idle"

\* C12: when the construction of any endpoint fails in start_bridge, at
\* whatever position among the arguments, no endpoint's connect() and no
\* read or write task is ever started, and the process ends with status 1.
C12_ConstructionFailureStartsNothing ==
    start_args.invalid # {} =>
        /\ NothingStarted
        /\ exit_status # 0
        /\ process = "exited" => exit_status = 1

\* the second TCP target is bad, after a good one, a physical interface and
\* a sniffer that were constructed
C12_Witness ==
    /\ start_args.invalid = {<<"tcp", 2>>}
    /\ start_args.cfg.physical
    /\ start_args.cfg.sniffer
    /\ process = "exited"
    /\ exit_status = 1

(***************************************************************************)
(* Part 5.  The data plane of bridges of a few endpoints, over several     *)
(* reads.                                                                  *)
(***************************************************************************)
\* a pair of endpoints, and the smallest bridges in which a destination
\* has two sources
FifoSizes == {2, 3}

FifoConfigs == {cfg \in Configs : Len(Combined(cfg)) \in FifoSizes}

InitFifo == BridgeOf(FifoConfigs)

NextFifo ==
    \/ BridgeConnect
    \/ \E e \in TcpEndpoints : TcpConnected(e)
    \/ \E e \in TcpEndpoints : \E data \in TcpReads : TcpRead(e, data, MaxFifoReads)
    \/ \E e \in TcpEndpoints : TcpWrite(e, "sent")
    \/ \E e \in RawEndpoints : \E packet \in RawFrames : RawRead(e, packet, MaxFifoReads)
    \/ \E e \in RawEndpoints : RawWrite(e)
    \/ SnifferServe
    \/ SnifferForward

SpecFifo == InitFifo /\ [][NextFifo]_vars

IsPrefix(a, b) == Len(a) <= Len(b) /\ SubSeq(b, 1, Len(a)) = a

\* the frames of S that D's write path has taken off D's receive queue
TakenFrom(S, D) == PacketsOf(SelectSeq(taken[D], LAMBDA item : item.src = S))

\* what the transport of D has been given for the items taken so far: a TCP
\* endpoint writes every item, framed; a raw endpoint writes the packets
\* that are not empty; the sniffer wraps every packet for the capture
\* queues registered at that moment, here none
Delivered(D) ==
    CASE D \in TcpEndpoints ->
            written[D] = [i \in DOMAIN taken[D] |->
                            get_payload_from_packet(taken[D][i].packet, host_le)]
      [] D \in RawEndpoints ->
            written[D] = SelectSeq(PacketsOf(taken[D]), LAMBDA packet : packet # <<>>)
      [] OTHER ->
            \A s \in Sessions : capture_queue[s] = <<>> /\ forwarded[s] = <<>>

\* a step that shortens a receive queue is a step of that endpoint's write
\* path, which takes the head and leaves every other queue alone
OneDrainer ==
    \A e \in Endpoints :
        Len(receive_queue'[e]) < Len(receive_queue[e]) =>
            /\ write_task[e] = "wait"
            /\ receive_queue'[e] = Tail(receive_queue[e])
            /\ taken'[e] = Append(taken[e], Head(receive_queue[e]))
            /\ \A d \in Endpoints \ {e} : receive_queue'[d] = receive_queue[d]

NextFlood ==
    \/ NextFifo
    \/ StartSession(1)
    \/ SessionWrite(1, FALSE)

\* what the event loop does on its own: the wiring, the server, and every
\* write path that has an item to take
FloodProgram ==
    \/ BridgeConnect
    \/ SnifferServe
    \/ SnifferForward
    \/ \E e \in TcpEndpoints : TcpWrite(e, "sent")
    \/ \E e \in RawEndpoints : RawWrite(e)
    \/ SessionWrite(1, FALSE)

SpecFlood == InitFifo /\ [][NextFlood]_vars

FairFlood == SpecFlood /\ WF_vars(FloodProgram)

\* the transport of D is up: a TCP connection is established, a device is
\* open from its construction on, the sniffer writes to its active session
TransportUp(D) ==
    CASE D \in TcpEndpoints -> tcp_conn[D] = "up"
      [] D \in RawEndpoints -> TRUE
      [] OTHER -> session[1].state = "active" /\ session[1].link = "up"

\* what D has emitted for the items its write path has taken: on a TCP
\* endpoint the big-endian length and the frame, for every frame; on a raw
\* endpoint the frame as it is; on the sniffer's session a PCAP record of
\* every frame taken since the session began
EmittedEvery(D) ==
    CASE D \in TcpEndpoints ->
            written[D] = [i \in DOMAIN taken[D] |-> WireFrame(taken[D][i].packet)]
      [] D \in RawEndpoints ->
            written[D] = PacketsOf(taken[D])
      [] OTHER ->
            session[1].state = "active" =>
                /\ forwarded[1] = SubSeq(PacketsOf(taken[D]), session[1].at + 1,
                                         Len(taken[D]))
                /\ Len(Pending(1)) = Len(forwarded[1])
                /\ \A i \in DOMAIN forwarded[1] :
                    Pending(1)[i] \in {get_pcap_from_packet(forwarded[1][i], now) :
                                          now \in Clock}

\* the same, the raw endpoints emitting the frames that are not empty
Emitted(D) ==
    IF D \in RawEndpoints
    THEN written[D] = SelectSeq(PacketsOf(taken[D]), LAMBDA packet : packet # <<>>)
    ELSE EmittedEvery(D)

\* nothing waits for a transport that is up
NothingWaits ==
    \A D \in Range(combined) :
        TransportUp(D) =>
            /\ receive_queue[D] = <<>>
            /\ D = SNIFFER => capture_queue[1] = <<>>

\* C14, as stated: every frame an endpoint's write path takes is emitted on
\* its transport, on a TAP or physical endpoint as on the others.
C14_EveryFrameEmitted ==
    \A D \in Range(combined) : EmittedEvery(D)

\* C14: every frame read completely from A's transport is on every other
\* endpoint's receive queue or has been taken from it; what has been taken
\* has been emitted in the transport's format, except that a TAP or
\* physical endpoint emits nothing for a frame of no bytes; and the event
\* loop running every ready task, again and again nothing waits for a
\* transport that is up.
C14_FloodDelivery ==
    /\ [](\A A \in Range(combined) : \A D \in Range(combined) \ {A} :
            /\ PacketsFrom(A, D) = extracted[A]
            /\ Emitted(D))
    /\ []<>NothingWaits

\* a frame injected on each of two TCP connections, written on the other,
\* framed, and both written on the TAP device
C14_Witness ==
    /\ combined = << <<"tcp", 1>>, <<"tcp", 2>>, TAP >>
    /\ extracted[<<"tcp", 1>>] = << <<1>> >>
    /\ extracted[<<"tcp", 2>>] = << <<1>> >>
    /\ written[<<"tcp", 1>>] = << <<0, 0, 0, 1, 1>> >>
    /\ written[<<"tcp", 2>>] = << <<0, 0, 0, 1, 1>> >>
    /\ written[TAP] = << <<1>>, <<1>> >>
    /\ NothingWaits

(***************************************************************************)
(* The sniffer and its capture clients, the event loop running every task  *)
(* that is ready.                                                          *)
(***************************************************************************)
\* what the event loop does on its own: the forwarder and the handlers of
\* the sessions take what is there for them, and start_session goes on
\* after its gather
SnifferProgram ==
    \/ BridgeConnect
    \/ SnifferServe
    \/ SnifferForward
    \/ \E s \in Sessions : SessionReadEnd(s)
    \/ \E s \in Sessions : SessionEnd(s)

\* a record written to a client that has left ends in ConnectionResetError
\* sooner or later
FairSniffer ==
    /\ SpecSniffer
    /\ WF_vars(SnifferProgram)
    /\ \A s \in Sessions : WF_vars(SessionWrite(s, TRUE))

\* C15: after the client of a capture session has disconnected, the session
\* eventually ends and its capture queue is removed from capture_queues (so
\* that the next client is accepted), also when no further frame arrives
\* on the sniffer's receive queue.
C15_SessionAfterSession ==
    \A s \in Sessions :
        (session[s].state = "active" /\ session[s].link = "closed_by_client")
            ~> (session[s].state = "ended" /\ s \notin Range(capture_queues))

(***************************************************************************)
(* The byte order of the length prefix.                                    *)
(***************************************************************************)
\* lengths whose four bytes tell every byte order apart
PrefixSizes == {0, 1, 255, 256, 258, MTU, 66051}

\* C16: on a little-endian and on a big-endian host, the payload of every
\* frame is the four bytes of its length, most significant first, and then
\* the frame unchanged; the decoder reads four prefix bytes as the number
\* they are most significant first; and a call of the decoder on such an
\* encoding alone returns the frame.
C16_BigEndianPrefix ==
    /\ \A f \in Frames : get_payload_from_packet(f, host_le) = Word(Len(f)) \o f
    /\ \A n \in PrefixSizes :
        /\ pack_I(htonl(Word(n), host_le), host_le) = Word(n)
        /\ ntohl(unpack_I(Word(n), host_le), host_le) = Word(n)
    /\ \A f \in Frames :
        (c_last.pre = <<>> /\ c_last.data = Word(Len(f)) \o f)
            => c_last.packets = <<f>>

\* on a little-endian host, the bytes 00 00 00 01 01 decoded as the frame 01
C16_Witness ==
    /\ host_le
    /\ c_items = << [kind |-> "frame", frame |-> <<1>>] >>
    /\ c_last.pre = <<>>
    /\ c_last.data = <<0, 0, 0, 1, 1>>
    /\ c_last.packets = << <<1>> >>

(***************************************************************************)
(* The send_queues lists.                                                  *)
(***************************************************************************)
\* C17: once Bridge.connect has wired a bridge of N endpoints, whatever
\* endpoints it was constructed from, the send_queues of every endpoint Y
\* has N - 1 entries, which are the receive queues of the other endpoints,
\* each once, and not Y's own; before, every list is empty.
C17_WiringStructure ==
    \A Y \in Endpoints :
        IF bridge_pc = "running" /\ Present(Y)
        THEN /\ Len(send_queues[Y]) = Len(combined) - 1
             /\ Range(send_queues[Y]) = Range(combined) \ {Y}
        ELSE send_queues[Y] = <<>>

\* a bridge of two TCP endpoints, the sniffer, a physical interface and a
\* TAP device, wired, frames flowing
C17_Witness ==
    /\ bridge_pc = "running"
    /\ Len(combined) = 5
    /\ send_queues[SNIFFER] = << <<"tcp", 1>>, <<"tcp", 2>>, PHYSICAL, TAP >>
    /\ send_queues[<<"tcp", 1>>] = << <<"tcp", 2>>, SNIFFER, PHYSICAL, TAP >>
    /\ extracted[TAP] # <<>>

(***************************************************************************)
(* Every step of every task, on the bridges of two endpoints.              *)
(***************************************************************************)
EveryConfigs == {cfg \in Configs : Len(Combined(cfg)) = 2}

InitEvery == BridgeOf(EveryConfigs)

\* the reads of the transports
EveryRead ==
    \/ \E e \in TcpEndpoints : \E data \in LifeReads : TcpRead(e, data, MaxLifeReads)
    \/ \E e \in RawEndpoints : \E packet \in RawFrames : RawRead(e, packet, MaxReads)

\* the other steps that the specification of the tasks leaves out
EveryOther ==
    \/ \E e \in TcpEndpoints : TcpConnected(e)
    \/ \E e \in TcpEndpoints : TcpConnectFail(e)
    \/ \E e \in TcpEndpoints : \E failure \in ReadFailures : TcpReadEnd(e, failure)
    \/ \E e \in RawEndpoints : RawReadFail(e)
    \/ \E e \in RawEndpoints : RawWrite(e)
    \/ SnifferForward
    \/ \E s \in Sessions : StartSession(s)
    \/ \E s \in Sessions : \E reset \in BOOLEAN : SessionWrite(s, reset)
    \/ \E s \in Sessions : ClientDisconnect(s)
    \/ \E s \in Sessions : SessionReadEnd(s)
    \/ \E s \in Sessions : SessionEnd(s)
    \/ Signal
    \/ TapWorkerReturn

NextEvery == EveryRead \/ EveryOther \/ Program

SpecEvery == InitEvery /\ [][NextEvery]_vars

\* C18: once Bridge.connect has finished its wiring loop, no step of any
\* task (a read, a write, the start or the end of a session, a failure,
\* the cancellation) changes the send_queues list of any endpoint; the
\* only step that changes one is the wiring itself.
C18_SendQueuesFixed ==
    [][/\ bridge_pc # "constructed" => send_queues' = send_queues
       /\ send_queues' # send_queues => bridge_pc' = "running"]_vars

\* a wired bridge of a TCP endpoint and the sniffer after a read, a write,
\* a session that ended, the peer's disconnect and the signal
C18_Witness ==
    /\ combined = << <<"tcp", 1>>, SNIFFER >>
    /\ send_queues[<<"tcp", 1>>] = <<SNIFFER>>
    /\ send_queues[SNIFFER] = << <<"tcp", 1>> >>
    /\ extracted[<<"tcp", 1>>] # <<>>
    /\ taken[SNIFFER] # <<>>
    /\ session[1].state = "ended"
    /\ tcp_conn[<<"tcp", 1>>] = "closed"
    /\ signalled

(***************************************************************************)
(* A length prefix above the MTU on a connection of the bridge.            *)
(***************************************************************************)
\* the peer's framing of several frames
RECURSIVE WireFrames(_)
WireFrames(frames) ==
    IF frames = <<>> THEN <<>>
    ELSE WireFrame(Head(frames)) \o WireFrames(Tail(frames))

\* the bytes of a buffer read as big-endian prefixes and bodies: the number
\* of whole frames in front of a prefix above the MTU, n being those
\* counted so far; -1 if the bytes end before such a prefix
RECURSIVE FramesBeforeOversized(_, _)
FramesBeforeOversized(input, n) ==
    IF Len(input) < LENGTH THEN -1
    ELSE LET size == SubSeq(input, 1, LENGTH)
         IN  IF WordAbove(size, MTU) THEN n
             ELSE IF WordValue(size) > Len(input) - LENGTH THEN -1
             ELSE FramesBeforeOversized(
                    SubSeq(input, LENGTH + WordValue(size) + 1, Len(input)), n + 1)

\* the reads of TcpReads that are whole frames, as the frames they carry
WholeReads == { << <<1>> >>, << <<>>, <<1, 1>> >> }

\* the frames e extracts in this step
NewlyExtracted(e) == SubSeq(extracted'[e], Len(extracted[e]) + 1, Len(extracted'[e]))

\* a read of e that brings a prefix above the MTU to the front of what is
\* left to decode: the frames extracted in the step are the whole frames in
\* front of that prefix and no other; they and nothing else are put on the
\* queue of every other endpoint; the buffer is dropped, the size logged;
\* the connection stays up and both handlers go on
OversizedRead(e, data) ==
    LET input == tcp_buffer[e] \o data
        before == FramesBeforeOversized(input, 0)
    IN  (TcpRead(e, data, MaxFifoReads) /\ before >= 0) =>
            /\ Len(NewlyExtracted(e)) = before
            /\ IsPrefix(WireFrames(NewlyExtracted(e)), input)
            /\ \A D \in Range(combined) \ {e} :
                PacketsOf(receive_queue'[D])
                    = PacketsOf(receive_queue[D]) \o NewlyExtracted(e)
            /\ receive_queue'[e] = receive_queue[e]
            /\ tcp_buffer'[e] = <<>>
            /\ unreasonable_at'[e] = Len(extracted'[e])
            /\ tcp_conn'[e] = "up"
            /\ read_task'[e] = "wait"
            /\ write_task'[e] = "wait"

\* after that, a read of whole frames into the empty buffer is decoded and
\* put on the queue of every other endpoint
LaterRead(e, frames) ==
    (/\ unreasonable_at[e] >= 0
     /\ tcp_buffer[e] = <<>>
     /\ TcpRead(e, WireFrames(frames), MaxFifoReads)) =>
        /\ NewlyExtracted(e) = frames
        /\ \A D \in Range(combined) \ {e} :
            PacketsOf(receive_queue'[D]) = PacketsOf(receive_queue[D]) \o frames

\* after that, the write handler takes what is queued for e and writes it
LaterWrite(e) ==
    (unreasonable_at[e] >= 0 /\ taken'[e] # taken[e]) =>
        /\ taken'[e] = Append(taken[e], Head(receive_queue[e]))
        /\ written'[e] = Append(written[e], WireFrame(Head(receive_queue[e]).packet))

\* C19: when the read path of a TCP endpoint comes upon a length prefix
\* above the MTU, no frame from the discarded bytes is broadcast, the
\* connection is not closed and both handlers keep running: frames queued
\* for the endpoint are still written, and well-formed frames read later
\* are decoded and broadcast.
C19_DesyncRecoveredLocally ==
    /\ [][\A e \in TcpEndpoints :
            /\ \A data \in TcpReads : OversizedRead(e, data)
            /\ \A frames \in WholeReads : LaterRead(e, frames)
            /\ LaterWrite(e)]_vars
    /\ [](\A e \in TcpEndpoints :
            unreasonable_at[e] >= 0 =>
                /\ tcp_conn[e] = "up"
                /\ read_task[e] = "wait"
                /\ write_task[e] = "wait")

\* the first TCP endpoint has logged an unreasonable size before it
\* extracted any frame, has then read the frame 01, and the second has
\* written it
C19_Witness ==
    /\ unreasonable_at[<<"tcp", 1>>] = 0
    /\ tcp_conn[<<"tcp", 1>>] = "up"
    /\ extracted[<<"tcp", 1>>] = << <<1>> >>
    /\ written[<<"tcp", 2>>] = << <<0, 0, 0, 1, 1>> >>

(***************************************************************************)
(* The end of a TCP endpoint.                                              *)
(***************************************************************************)
\* C20: when the read path of a TCP endpoint has seen the empty read or
\* the connection reset, its write loop eventually stops as well and
\* TCPClient.connect() ends, whether or not a further frame is queued for
\* the endpoint.
C20_ReadFailureStopsEndpoint ==
    \A e \in TcpEndpoints :
        (tcp_conn[e] = "closed" /\ read_task[e] = "returned")
            ~> (write_task[e] # "wait" /\ connect_task[e] # "running")

(***************************************************************************)
(* Part 6: one task cancelled on its own.                                  *)
(*                                                                         *)
(* Task.cancel() on one handler while the loop runs: the handler's except  *)
(* clause logs and re-raises, the gather of the endpoint's connect()       *)
(* raises CancelledError to connect() and leaves the other handler alone.  *)
(***************************************************************************)
Handlers == {"read", "write"}

\* read_handler / write_handler and their TAP, physical and sniffer
\* counterparts: except asyncio.CancelledError: log; raise
HandlerCancelled(e, handler) ==
    /\ process = "running"
    /\ connect_task[e] = "running"
    /\ IF handler = "read"
       THEN /\ read_task[e] = "wait"
            /\ read_task' = [read_task EXCEPT ![e] = "cancelled"]
            /\ UNCHANGED write_task
       ELSE /\ write_task[e] = "wait"
            /\ write_task' = [write_task EXCEPT ![e] = "cancelled"]
            /\ UNCHANGED read_task
    /\ UNCHANGED <<process, signalled, connect_task, tap_worker>>
    /\ UNCHANGED <<boot_vars, host_le, codec_vars, bridge_vars>>

\* an endpoint's connect() while the loop runs: its gather raises the
\* CancelledError of the cancelled handler; except asyncio.CancelledError:
\* log; return.  Nothing cancels the other handler.
EndpointSwallows(e) ==
    /\ process = "running"
    /\ connect_task[e] = "running"
    /\ read_task[e] = "cancelled" \/ write_task[e] = "cancelled"
    /\ connect_task' = [connect_task EXCEPT ![e] = "returned"]
    /\ UNCHANGED <<process, signalled, read_task, write_task, tap_worker>>
    /\ UNCHANGED <<boot_vars, host_le, codec_vars, bridge_vars>>

NextCancel ==
    \/ Environment
    \/ Program
    \/ \E e \in Endpoints : \E handler \in Handlers : HandlerCancelled(e, handler)
    \/ \E e \in Endpoints : EndpointSwallows(e)

SpecCancel == InitEvery /\ [][NextCancel]_vars

\* C21: when an endpoint's connect() has ended after one of its handlers was
\* cancelled, the endpoint's other handler is not still running.
C21_SiblingStops ==
    \A e \in Endpoints :
        (connect_task[e] = "returned"
            /\ (read_task[e] = "cancelled" \/ write_task[e] = "cancelled"))
        => (read_task[e] # "wait" /\ write_task[e] # "wait")

(***************************************************************************)
(* Part 7: what a capture client sends.                                    *)
(***************************************************************************)
\* the reads of one session that the model follows
MaxDiscards == 1

\* what a capture client may send: one byte, two bytes
ClientData == {<<1>>, <<1, 1>>}

\* the receive queues after the session's read_handler has read data: the
\* handler logs "Unexpected packet ... Discarding" and loops; no statement
\* of it names a queue
receive_queue_after_client_data_Broadcast(rq, queues, data) ==
    broadcast(rq, queues, SNIFFER, <<data>>)

receive_queue_after_client_data(rq, queues, data) == rq

\* TCPSnifferServer.read_handler: client_reader.read(MAX_READ) returns the
\* bytes a capture client has sent
SessionRead(s, data) ==
    /\ process = "running"
    /\ session[s].state = "active"
    /\ session[s].rd = "wait"
    /\ session[s].link = "up"
    /\ session[s].discarded < MaxDiscards
    /\ session' = [session EXCEPT ![s].discarded = @ + 1]
    /\ receive_queue' = receive_queue_after_client_data(
                            receive_queue, send_queues[SNIFFER], data)
    /\ UNCHANGED <<boot_vars, host_le, codec_vars, life_vars, combined, bridge_pc,
                   send_queues, tcp_conn, tcp_buffer, sniffer_server,
                   capture_queues, capture_queue, client_stream, written,
                   extracted, taken, forwarded, reads>>

NextSilent ==
    \/ NextSniffer
    \/ \E s \in Sessions : \E data \in ClientData : SessionRead(s, data)

SpecSilent == InitSniffer /\ [][NextSilent]_vars

\* the step is a read of client bytes by a session's read_handler
ClientBytesRead == \E s \in Sessions : session'[s].discarded # session[s].discarded

\* C22: no step leaves an item put by the sniffer on any endpoint's receive
\* queue, and the step in which a session reads bytes sent by its capture
\* client changes no receive queue, no capture queue and no send_queues list.
C22_SnifferSilent ==
    [][/\ \A e \in Endpoints : \A i \in DOMAIN receive_queue'[e] :
            receive_queue'[e][i].src # SNIFFER
       /\ ClientBytesRead =>
            UNCHANGED <<receive_queue, capture_queue, capture_queues, send_queues>>]_vars

\* a client of a session that has been sent captured frames has sent bytes
C22_Witness ==
    \E s \in Sessions : session[s].discarded > 0 /\ forwarded[s] # <<>>

(***************************************************************************)
(* Part 8: the TAP read in the executor.                                   *)
(*                                                                         *)
(* read_tap awaits loop.run_in_executor(None, os.read, self.tap, MAX_READ):*)
(* os.read blocks a thread of the default executor, the thread of the      *)
(* event loop goes on with the other tasks.  Here no frame arrives on the  *)
(* TAP device, so the read stays outstanding.                              *)
(***************************************************************************)
\* the loop's thread is inside the blocking os.read
loop_stalled_ReadInLoop(worker) == worker = "blocked"

loop_stalled(worker) == FALSE

TapConfigs == {cfg \in FifoConfigs : cfg.tap}

InitTap == BridgeOf(TapConfigs)

\* the loop's thread is free to run a task
LoopRuns == ~loop_stalled(tap_worker)

\* the steps the loop takes without waiting for a peer or a device
LoopProgram ==
    \/ LoopRuns /\ BridgeConnect
    \/ LoopRuns /\ SnifferServe
    \/ \E e \in TcpEndpoints : LoopRuns /\ TcpWrite(e, "sent")
    \/ \E e \in RawEndpoints : LoopRuns /\ RawWrite(e)
    \/ LoopRuns /\ SnifferForward
    \/ LoopRuns /\ SessionWrite(1, FALSE)

\* every step of the loop's thread
NextTap ==
    \/ LoopProgram
    \/ \E e \in TcpEndpoints : LoopRuns /\ TcpConnected(e)
    \/ \E e \in TcpEndpoints : \E data \in TcpReads :
            LoopRuns /\ TcpRead(e, data, MaxFifoReads)
    \/ \E packet \in RawFrames : LoopRuns /\ RawRead(PHYSICAL, packet, MaxFifoReads)
    \/ LoopRuns /\ StartSession(1)

SpecTap == InitTap /\ [][NextTap]_vars

FairTap == SpecTap /\ WF_vars(LoopProgram)

\* C23: with the TAP read outstanding in its worker from the start of
\* read_tap on, the sniffer's server comes up, every frame read from another
\* endpoint is on every other endpoint's receive queue (the TAP endpoint's
\* included) or has been taken from it, and again and again no frame waits
\* for a write path whose transport is up.
C23_TapReadDoesNotStall ==
    /\ [](bridge_pc = "running" => (tap_worker = "blocked" /\ extracted[TAP] = <<>>))
    /\ [](\A A \in Range(combined) : \A D \in Range(combined) \ {A} :
            PacketsFrom(A, D) = extracted[A])
    /\ (Present(SNIFFER) /\ bridge_pc = "running") ~> (sniffer_server = "listening")
    /\ []<>(bridge_pc = "running")
    /\ []<>NothingWaits

\* the read of the TAP device is outstanding, and frames read on two TCP
\* connections have been written to the other connection and to the TAP
\* device
C23_Witness ==
    /\ tap_worker = "blocked"
    /\ extracted[TAP] = <<>>
    /\ Len(written[TAP]) = 2
    /\ written[<<"tcp", 1>>] # <<>>
    /\ written[<<"tcp", 2>>] # <<>>

(***************************************************************************)
(* Part 9: the State object of the collaborator (current_state.py).        *)
(*                                                                         *)
(* lab.devices maps a device's name to the connection of each of its       *)
(* interfaces ("none" for None); bridges, tap_endpoints and                *)
(* phyical_endpoints are the keys of the dictionaries of those names;      *)
(* device_pid, bridge_pid and sniffer_port are the pid of each DeviceState *)
(* and the pid and sniffer_port of each ConnectionState: "none" for None,  *)
(* "zero" for the 0 load_device writes, "pid" and "port" for a number that *)
(* a launch or get_free_port returned.  The port numbers of the            *)
(* interfaces and the signals _stop_pid sends are left out.                *)
(***************************************************************************)
\* the NIC_COUNT of the devices, the endpoints one add_bridge call names
MaxInterfaces == 2
MaxBridgeEndpoints == 2

DeviceNames == {"r1", "r2"}

BridgeNames == {"b1", "b2"}

\* if interface.connection: a name that is not the empty string
connected(connection) == connection \notin {"none", ""}

\* if pid: a number that is not 0
running(pid) == pid = "pid"

\* a dictionary with the key set or added, with the key popped
with_key(dict, key, value) ==
    [k \in DOMAIN dict \cup {key} |-> IF k = key THEN value ELSE dict[k]]

without_key(dict, key) == [k \in DOMAIN dict \ {key} |-> dict[k]]

\* a tcp_endpoints string: the device name in front of the separator, the
\* digits after it (none: DEVICE_INTERFACE does not match), and whether
\* more text follows the digits ("r1/0/1", "r1/0x")
DigitTexts == {<<>>, <<0>>, <<0, 1>>, <<2>>}

EndpointTexts ==
    [device : DeviceNames, digits : DigitTexts, junk : {FALSE}]
        \cup {[device |-> "r1", digits |-> <<0>>, junk |-> TRUE]}

\* int(index)
RECURSIVE int(_)
int(digits) ==
    IF digits = <<>> THEN 0
    ELSE 10 * int(SubSeq(digits, 1, Len(digits) - 1)) + digits[Len(digits)]

\* DEVICE_INTERFACE.match(tcp_endpoint): a match at the start of the string
DEVICE_INTERFACE_match(text) == text.digits # <<>>

\* _split_device_interface_index raises: split gives three parts, or
\* int() refuses the second
split_raises(text) == text.junk

\* _validate_tcp_endpoints returns: every endpoint, checked on its own
\* against the state as it is, has the format, names a device and one of
\* its interfaces, and the interface has no connection
validate_tcp_endpoints(state, tcp_endpoints) ==
    \A k \in DOMAIN tcp_endpoints :
        LET text == tcp_endpoints[k]
            index == int(text.digits)
        IN  /\ DEVICE_INTERFACE_match(text)
            /\ ~split_raises(text)
            /\ text.device \in DOMAIN state.devices
            /\ index \in DOMAIN state.devices[text.device]
            /\ ~connected(state.devices[text.device][index])

\* for tcp_endpoint in tcp_endpoints: ...interfaces[index].connection = name
RECURSIVE connect_interfaces(_, _, _)
connect_interfaces(devices, tcp_endpoints, name) ==
    IF tcp_endpoints = <<>> THEN devices
    ELSE LET text == Head(tcp_endpoints)
         IN  connect_interfaces(
                 [devices EXCEPT ![text.device][int(text.digits)] = name],
                 Tail(tcp_endpoints), name)

\* endpoints, as add_bridge counts them
counted_endpoints(tcp_endpoints, nic_endpoint, tap_endpoint) ==
    Len(tcp_endpoints) + (IF tap_endpoint THEN 1 ELSE 0)
                       + (IF nic_endpoint THEN 1 ELSE 0)

\* the distinct endpoints the arguments name
distinct_endpoints(tcp_endpoints, nic_endpoint, tap_endpoint) ==
    Cardinality({<<tcp_endpoints[k].device, int(tcp_endpoints[k].digits)>> :
                    k \in DOMAIN tcp_endpoints})
        + (IF tap_endpoint THEN 1 ELSE 0) + (IF nic_endpoint THEN 1 ELSE 0)

\* State.add_bridge; nic_endpoint, tap_endpoint: an interface name is given;
\* host_nics: psutil.net_if_addrs() is not empty
add_bridge(name, tcp_endpoints, nic_endpoint, tap_endpoint, host_nics) ==
    LET raises ==
            \/ name \in lab.bridges
            \/ ~validate_tcp_endpoints(lab, tcp_endpoints)
            \/ (tap_endpoint \/ nic_endpoint) /\ ~host_nics
            \/ counted_endpoints(tcp_endpoints, nic_endpoint, tap_endpoint) < 2
    IN  /\ lab_call' = [op |-> "add_bridge", raised |-> raises,
                        distinct |-> distinct_endpoints(tcp_endpoints,
                                         nic_endpoint, tap_endpoint)]
        /\ lab' = IF raises THEN lab
                  ELSE [devices |-> connect_interfaces(lab.devices, tcp_endpoints, name),
                        device_pid |-> lab.device_pid,
                        bridges |-> lab.bridges \cup {name},
                        bridge_pid |-> with_key(lab.bridge_pid, name, "none"),
                        sniffer_port |-> with_key(lab.sniffer_port, name, "none"),
                        tap_endpoints |->
                            IF tap_endpoint THEN lab.tap_endpoints \cup {name}
                            ELSE lab.tap_endpoints,
                        phyical_endpoints |->
                            IF nic_endpoint THEN lab.phyical_endpoints \cup {name}
                            ELSE lab.phyical_endpoints]
        /\ UNCHANGED <<start_args, exit_status, unreasonable_at, backlog, topology>>
        /\ UNCHANGED <<host_le, codec_vars, bridge_vars, life_vars>>

\* State.stop_bridge as a function of the state
stop_bridge(state, bridge_name, delete) ==
    LET cleared == [d \in DOMAIN state.devices |->
                       [i \in DOMAIN state.devices[d] |->
                           IF delete /\ state.devices[d][i] = bridge_name
                           THEN "none" ELSE state.devices[d][i]]]
    IN  IF bridge_name \in state.bridges /\ ~delete
        THEN [state EXCEPT !.devices = cleared,
                           !.bridge_pid[bridge_name] = "none",
                           !.sniffer_port[bridge_name] = "none"]
        ELSE [devices |-> cleared,
              device_pid |-> state.device_pid,
              bridges |-> state.bridges \ {bridge_name},
              bridge_pid |-> without_key(state.bridge_pid, bridge_name),
              sniffer_port |-> without_key(state.sniffer_port, bridge_name),
              tap_endpoints |-> state.tap_endpoints \ {bridge_name},
              phyical_endpoints |-> state.phyical_endpoints \ {bridge_name}]

\* for connection in connections_to_stop: self.stop_bridge(connection, delete)
RECURSIVE stop_bridges(_, _, _)
stop_bridges(state, connections, delete) ==
    IF connections = {} THEN state
    ELSE LET connection == CHOOSE c \in connections : TRUE
         IN  stop_bridges(stop_bridge(state, connection, delete),
                          connections \ {connection}, delete)

\* State.stop_device as a function of the state, the device present
stop_device(state, device_name, delete) ==
    LET stopped ==
            IF running(state.device_pid[device_name])
            THEN [state EXCEPT !.device_pid[device_name] = "none"]
            ELSE state
        connections_to_stop ==
            {c \in {state.devices[device_name][i] :
                       i \in DOMAIN state.devices[device_name]} : connected(c)}
    IN  stop_bridges(stopped, connections_to_stop, delete)

\* State.load_device: the tag exists, the device gets NIC_COUNT interfaces
LoadDevice(name) ==
    /\ lab_call' = [op |-> "load_device", raised |-> name \in DOMAIN lab.devices,
                    distinct |-> 0]
    /\ lab' = IF name \in DOMAIN lab.devices THEN lab
              ELSE [lab EXCEPT !.devices =
                        with_key(lab.devices, name,
                                 [i \in 0..(MaxInterfaces - 1) |-> "none"]),
                               !.device_pid = with_key(lab.device_pid, name, "zero")]
    /\ UNCHANGED <<start_args, exit_status, unreasonable_at, backlog, topology>>
    /\ UNCHANGED <<host_le, codec_vars, bridge_vars, life_vars>>

AddBridge ==
    \E name \in BridgeNames :
    \E tcp_endpoints \in SeqsUpTo(EndpointTexts, MaxBridgeEndpoints) :
    \E nic_endpoint \in BOOLEAN, tap_endpoint \in BOOLEAN, host_nics \in BOOLEAN :
        add_bridge(name, tcp_endpoints, nic_endpoint, tap_endpoint, host_nics)

StopBridge(bridge_name, delete) ==
    /\ lab_call' = [op |-> "stop_bridge", raised |-> FALSE, distinct |-> 0]
    /\ lab' = stop_bridge(lab, bridge_name, delete)
    /\ UNCHANGED <<start_args, exit_status, unreasonable_at, backlog, topology>>
    /\ UNCHANGED <<host_le, codec_vars, bridge_vars, life_vars>>

\* State.stop_device: raises when the device does not exist
StopDevice(device_name, delete) ==
    /\ lab_call' = [op |-> "stop_device",
                    raised |-> device_name \notin DOMAIN lab.devices, distinct |-> 0]
    /\ lab' = IF device_name \in DOMAIN lab.devices
              THEN stop_device(lab, device_name, delete) ELSE lab
    /\ UNCHANGED <<start_args, exit_status, unreasonable_at, backlog, topology>>
    /\ UNCHANGED <<host_le, codec_vars, bridge_vars, life_vars>>

\* State.delete_device: stop_device(name, delete=True), self.devices.pop(name)
DeleteDevice(name) ==
    /\ lab_call' = [op |-> "delete_device",
                    raised |-> name \notin DOMAIN lab.devices, distinct |-> 0]
    /\ lab' = IF name \in DOMAIN lab.devices
              THEN LET stopped == stop_device(lab, name, TRUE)
                   IN  [stopped EXCEPT !.devices = without_key(stopped.devices, name),
                                       !.device_pid =
                                            without_key(stopped.device_pid, name)]
              ELSE lab
    /\ UNCHANGED <<start_args, exit_status, unreasonable_at, backlog, topology>>
    /\ UNCHANGED <<host_le, codec_vars, bridge_vars, life_vars>>

InitLab == InitStart /\ start_args = NoArgs /\ ~host_le

NextLab ==
    \/ \E name \in DeviceNames : LoadDevice(name)
    \/ AddBridge
    \/ \E name \in BridgeNames : \E delete \in BOOLEAN : StopBridge(name, delete)
    \/ \E name \in DeviceNames : \E delete \in BOOLEAN : StopDevice(name, delete)
    \/ \E name \in DeviceNames : DeleteDevice(name)

SpecLab == InitLab /\ [][NextLab]_vars

\* the distinct endpoints of a bridge: the device interfaces whose
\* connection names it, its TAP endpoint, its physical endpoint
EndpointsOf(bridge) ==
    {<<d, i>> \in DeviceNames \X (0..(MaxInterfaces - 1)) :
        d \in DOMAIN lab.devices /\ lab.devices[d][i] = bridge}
      \cup (IF bridge \in lab.tap_endpoints THEN {"tap"} ELSE {})
      \cup (IF bridge \in lab.phyical_endpoints THEN {"nic"} ELSE {})

\* C24: every bridge of State.bridges has at least two distinct endpoints,
\* and an add_bridge call that names fewer than two distinct endpoints raises.
C24_BridgesHaveTwoEndpoints ==
    /\ \A bridge \in lab.bridges : Cardinality(EndpointsOf(bridge)) >= 2
    /\ (lab_call.op = "add_bridge" /\ lab_call.distinct < 2) => lab_call.raised

(***************************************************************************)
(* Part 10: Topology (labmaker.py).                                        *)
(*                                                                         *)
(* Names are strings, here sequences of characters; high_level_data is a   *)
(* record of the devices' names, the point_to_point dictionary as its      *)
(* (device, neighbor) pairs in the order of iteration, the lists of        *)
(* full_mesh_p2p and the multipoint dictionary as (hubname, devices)       *)
(* pairs.                                                                  *)
(***************************************************************************)
\* the links of point_to_point, the lists of full_mesh_p2p and their
\* length, the hubs of multipoint and their length
MaxLinks == 2
MaxMeshes == 1
MaxMeshDevices == 3
MaxHubs == 1
MaxHubDevices == 2

DigitChars == <<"0", "1", "2", "3", "4", "5", "6", "7", "8", "9">>

\* str(index), as the f-string formats it
RECURSIVE str(_)
str(index) ==
    IF index < 10 THEN <<DigitChars[index + 1]>>
    ELSE str(index \div 10) \o <<DigitChars[(index % 10) + 1]>>

\* f"{device_a}_{_device_a['index']}-" f"-{device_b}_{_device_b['index']}"
point_to_point_name(device_a, index_a, device_b, index_b) ==
    device_a \o <<"_">> \o str(index_a) \o <<"-", "-">>
             \o device_b \o <<"_">> \o str(index_b)

\* the names a topology file uses for devices and for hubs
TopologyDevices == {<<"a">>, <<"b">>}

HubNames == {<<"h">>, <<"a", "_", "0", "-", "-", "b", "_", "0">>}

\* a dictionary's items: no key comes back after another key
Contiguous(links) ==
    \A i, j, k \in DOMAIN links :
        (i < j /\ j < k /\ links[i][1] = links[k][1]) => links[j][1] = links[i][1]

HighLevels ==
    [devices : {<<<<"a">>, <<"b">>>>, <<<<"a">>>>},
     point_to_point : {links \in SeqsUpTo(TopologyDevices \X TopologyDevices, MaxLinks) :
                          Contiguous(links)},
     full_mesh_p2p : SeqsUpTo({mesh \in SeqsUpTo(TopologyDevices, MaxMeshDevices) :
                                  Len(mesh) >= 2}, MaxMeshes),
     multipoint : {hubs \in SeqsUpTo(HubNames \X
                                     {devices \in SeqsUpTo(TopologyDevices, MaxHubDevices) :
                                         devices # <<>>}, MaxHubs) :
                      \A i, j \in DOMAIN hubs : hubs[i][1] = hubs[j][1] => i = j}]

\* Topology.__init__ before its loops: no bridge, next_available_interface
\* a defaultdict(int)
NewTopology(high_level) ==
    [devices |-> high_level.devices, raised |-> FALSE, bridges |-> <<>>,
     next_available_interface |-> [d \in TopologyDevices |-> 0]]

\* get_next_available_interface finds the device in self.devices
device_found(t, device) == \E k \in DOMAIN t.devices : t.devices[k] = device

\* the counter after get_next_available_interface
next_index(index) == index + 1

\* get_new_tcp_endpoint for each device of the list in turn, the endpoints
\* appended to the last bridge; RuntimeError for a device not in the topology
RECURSIVE get_new_tcp_endpoints(_, _)
get_new_tcp_endpoints(t, devices) ==
    IF t.raised \/ devices = <<>> THEN t
    ELSE LET device == Head(devices)
             index == t.next_available_interface[device]
             last == Len(t.bridges)
         IN  IF ~device_found(t, device) THEN [t EXCEPT !.raised = TRUE]
             ELSE get_new_tcp_endpoints(
                    [t EXCEPT !.next_available_interface[device] = next_index(index),
                              !.bridges[last].tcp_endpoints =
                                  Append(@, [device |-> device, index |-> index])],
                    Tail(devices))

\* the name of the bridge the loop has just filled
name_last(t, hubname) ==
    IF t.raised THEN t
    ELSE LET last == Len(t.bridges)
             ends == t.bridges[last].tcp_endpoints
         IN  [t EXCEPT !.bridges[last].name =
                IF hubname # <<>> THEN hubname
                ELSE point_to_point_name(ends[1].device, ends[1].index,
                                         ends[2].device, ends[2].index)]

\* a bridge of the devices: get_new_point_to_point (hubname empty), or the
\* body of the multipoint loop
new_bridge(t, devices, hubname) ==
    IF t.raised THEN t
    ELSE name_last(get_new_tcp_endpoints(
                       [t EXCEPT !.bridges =
                            Append(@, [name |-> <<>>, tcp_endpoints |-> <<>>])],
                       devices), hubname)

\* for device, neighbors in ...items(): for neighbor in neighbors
RECURSIVE point_to_points(_, _)
point_to_points(t, links) ==
    IF links = <<>> THEN t
    ELSE point_to_points(new_bridge(t, <<links[1][1], links[1][2]>>, <<>>), Tail(links))

\* itertools.combinations(links, 2)
RECURSIVE combinations2(_)
combinations2(links) ==
    IF Len(links) < 2 THEN <<>>
    ELSE [k \in 1..(Len(links) - 1) |-> <<links[1], links[k + 1]>>]
            \o combinations2(Tail(links))

RECURSIVE full_meshes(_, _)
full_meshes(t, meshes) ==
    IF meshes = <<>> THEN t
    ELSE full_meshes(point_to_points(t, combinations2(Head(meshes))), Tail(meshes))

RECURSIVE multipoints(_, _)
multipoints(t, hubs) ==
    IF hubs = <<>> THEN t
    ELSE multipoints(new_bridge(t, hubs[1][2], hubs[1][1]), Tail(hubs))

\* device_links[device][index] = bridge["name"], bridge after bridge
RECURSIVE device_links(_, _)
device_links(bridges, links) ==
    IF bridges = <<>> THEN links
    ELSE LET bridge == Head(bridges)
             mine == {<<bridge.tcp_endpoints[k].device, bridge.tcp_endpoints[k].index>> :
                         k \in DOMAIN bridge.tcp_endpoints}
         IN  device_links(Tail(bridges),
                          [pair \in mine |-> bridge.name] @@ links)

\* Topology(high_level_data)
Topology(high_level) ==
    LET t == multipoints(
                 full_meshes(
                     point_to_points(NewTopology(high_level),
                                     high_level.point_to_point),
                     high_level.full_mesh_p2p),
                 high_level.multipoint)
    IN  [done |-> TRUE, raised |-> t.raised, high_level |-> high_level,
         bridges |-> IF t.raised THEN <<>> ELSE t.bridges,
         links_by_device |-> IF t.raised THEN <<>>
                             ELSE device_links(t.bridges, <<>>)]

Convert(high_level) ==
    /\ topology' = Topology(high_level)
    /\ UNCHANGED <<start_args, exit_status, unreasonable_at, backlog, lab, lab_call>>
    /\ UNCHANGED <<host_le, codec_vars, bridge_vars, life_vars>>

InitTopology == InitLab

NextTopology == ~topology.done /\ \E high_level \in HighLevels : Convert(high_level)

SpecTopology == InitTopology /\ [][NextTopology]_vars

\* the endpoints of the bridges in the order of processing
RECURSIVE EndpointsInOrder(_)
EndpointsInOrder(bridges) ==
    IF bridges = <<>> THEN <<>>
    ELSE Head(bridges).tcp_endpoints \o EndpointsInOrder(Tail(bridges))

\* the number of bridges that the full meshes ask for
RECURSIVE MeshBridges(_)
MeshBridges(meshes) ==
    IF meshes = <<>> THEN 0
    ELSE (Len(Head(meshes)) * (Len(Head(meshes)) - 1)) \div 2 + MeshBridges(Tail(meshes))

\* every device's indices are 0, 1, 2, ... in the order of processing; the
\* point-to-point bridges come first, two endpoints each, one for every
\* link and n(n-1)/2 for a mesh of n; the hubs follow
AllocationConsecutive ==
    (topology.done /\ ~topology.raised) =>
        LET bridges == topology.bridges
            h == topology.high_level
            p2p == Len(h.point_to_point) + MeshBridges(h.full_mesh_p2p)
        IN  /\ \A d \in TopologyDevices :
                LET mine == SelectSeq(EndpointsInOrder(bridges),
                                      LAMBDA e : e.device = d)
                IN  \A k \in DOMAIN mine : mine[k].index = k - 1
            /\ Len(bridges) = p2p + Len(h.multipoint)
            /\ \A k \in 1..p2p : Len(bridges[k].tcp_endpoints) = 2

\* links_by_device has an entry for every allocated (device, index) and for
\* nothing else, and the entry names one bridge, the one that holds the pair
LinksNameTheHolder ==
    (topology.done /\ ~topology.raised) =>
        LET bridges == topology.bridges
            Holds(k, pair) ==
                \E n \in DOMAIN bridges[k].tcp_endpoints :
                    pair = <<bridges[k].tcp_endpoints[n].device,
                             bridges[k].tcp_endpoints[n].index>>
        IN  /\ DOMAIN topology.links_by_device =
                  {pair \in TopologyDevices \X (0..Len(EndpointsInOrder(bridges))) :
                      \E k \in DOMAIN bridges : Holds(k, pair)}
            /\ \A pair \in DOMAIN topology.links_by_device :
                \A k \in DOMAIN bridges :
                    bridges[k].name = topology.links_by_device[pair] <=> Holds(k, pair)

\* C25: the conversion gives every device the indices 0, 1, 2, ... in the
\* order of processing, so no (device, index) is in two bridges or twice in
\* one; a point-to-point bridge has two TCP endpoints and a mesh of n
\* devices gives n(n-1)/2 of them; and links_by_devices maps every allocated
\* (device, index) to exactly the bridge that holds it.
C25_AllocationWithoutCollision == AllocationConsecutive /\ LinksNameTheHolder

(***************************************************************************)
(* Part 11: what a device hands to read_physical and read_tap.             *)
(*                                                                         *)
(* sock_recv(self.socket, MAX_READ) and os.read(self.tap, MAX_READ) return *)
(* one frame of the device, of up to MAX_READ bytes; the handlers put it   *)
(* on the send queues as it is.                                            *)
(***************************************************************************)
MAX_READ == 10000

\* a frame of n bytes
FrameOf(n) == [i \in 1..n |-> 1]

\* the lengths of the frames followed here: the shortest, the longest of
\* standard Ethernet, one byte more (all within MAX_READ)
DeviceLengths == {n \in {1, MTU, MTU + 1} : n <= MAX_READ}

DeviceFrames == {FrameOf(n) : n \in DeviceLengths}

JumboConfigs == {cfg \in EveryConfigs : cfg.tap \/ cfg.physical}

InitJumbo == BridgeOf(JumboConfigs)

NextJumbo ==
    \/ BridgeConnect
    \/ \E e \in TcpEndpoints : TcpConnected(e)
    \/ \E e \in RawEndpoints : \E packet \in DeviceFrames : RawRead(e, packet, MaxFifoReads)
    \/ \E e \in TcpEndpoints : TcpWrite(e, "sent")
    \/ \E e \in RawEndpoints : RawWrite(e)
    \/ SnifferServe
    \/ SnifferForward

SpecJumbo == InitJumbo /\ [][NextJumbo]_vars

\* C26: every frame a physical or TAP read path has put on a receive queue
\* is at most MTU bytes long, and every length prefix a TCP endpoint has
\* written for such a frame is at most MTU, so that a decoder applying the
\* MTU check accepts it.
C26_RawFramesWithinMTU ==
    /\ \A D \in Endpoints : \A i \in DOMAIN receive_queue[D] :
        receive_queue[D][i].src \in RawEndpoints =>
            Len(receive_queue[D][i].packet) <= MTU
    /\ \A D \in TcpEndpoints : \A i \in DOMAIN written[D] :
        ~unreasonable_size(ntohl(unpack_I(SubSeq(written[D][i], 1, LENGTH), host_le),
                                 host_le))

(***************************************************************************)
(* Part 12: one call of get_packets_from_tcp_data, against a reading of    *)
(* its input (the buffer before, then data) as big-endian prefixes and     *)
(* bodies.                                                                 *)
(***************************************************************************)
\* the whole frames at the front of input, what follows them, and why the
\* reading stops there: "empty", "short_header" (1 to 3 bytes follow),
\* "oversized" (a prefix above the MTU), "partial_body"
RECURSIVE Reading_of(_, _)
Reading_of(input, frames) ==
    IF input = <<>> THEN [frames |-> frames, rest |-> input, stop |-> "empty"]
    ELSE IF Len(input) < LENGTH
    THEN [frames |-> frames, rest |-> input, stop |-> "short_header"]
    ELSE LET size == SubSeq(input, 1, LENGTH)
         IN  IF WordAbove(size, MTU)
             THEN [frames |-> frames, rest |-> input, stop |-> "oversized"]
             ELSE IF WordValue(size) > Len(input) - LENGTH
             THEN [frames |-> frames, rest |-> input, stop |-> "partial_body"]
             ELSE Reading_of(
                    SubSeq(input, LENGTH + WordValue(size) + 1, Len(input)),
                    Append(frames, SubSeq(input, LENGTH + 1, LENGTH + WordValue(size))))

LastReading == Reading_of(LastInput, <<>>)

Called == c_last.ended # "none"

\* C27: a call that comes to a point where 1 to 3 bytes are left returns the
\* frames in front of them and leaves exactly those bytes in the buffer, in
\* their order.
C27_PartialHeaderKept ==
    (Called /\ LastReading.stop = "short_header") =>
        /\ c_last.packets = LastReading.frames
        /\ c_buffer = LastReading.rest

\* C28: a call that comes to a prefix L <= MTU with fewer than L bytes after
\* it returns the frames in front of it, none for it, and leaves the four
\* bytes of the prefix followed by the bytes of the body that have arrived;
\* a call whose input ends with the last byte of a frame returns that frame
\* and leaves the buffer empty.
C28_PartialBodyRestoresHeader ==
    /\ (Called /\ LastReading.stop = "partial_body") =>
        /\ c_last.packets = LastReading.frames
        /\ c_buffer = LastReading.rest
    /\ (Called /\ LastReading.stop = "empty") =>
        /\ c_last.packets = LastReading.frames
        /\ c_buffer = <<>>

\* a prefix of one byte's length has been put back in front of garbage that
\* followed it, and an earlier call ended with the last byte of a frame
C28_Witness ==
    /\ Called
    /\ LastReading.stop = "partial_body"
    /\ Len(c_buffer) > LENGTH
    /\ c_out # <<>>

\* the buffer holds no complete frame
NoCompleteFrame(buffer) ==
    \/ buffer = <<>>
    \/ Len(buffer) < LENGTH
    \/ WordAbove(SubSeq(buffer, 1, LENGTH), Len(buffer) - LENGTH)

\* C29: after a call that did not come to a prefix above the MTU the buffer
\* holds no complete frame, and the call has returned every whole frame at
\* the front of its input, in the order of the stream.
C29_EveryCompleteFrameExtracted ==
    (Called /\ LastReading.stop # "oversized") =>
        /\ NoCompleteFrame(c_buffer)
        /\ c_last.packets = LastReading.frames

\* one call has returned three frames
C29_Witness ==
    /\ Called
    /\ LastReading.stop # "oversized"
    /\ Len(c_last.packets) = 3
    /\ c_last.packets = LastReading.frames

(***************************************************************************)
(* Part 13: Bridge.connect and its gather.                                 *)
(***************************************************************************)
\* C30: in the step in which Bridge.connect() returns or raises, every
\* endpoint's connect() has finished and no endpoint's read or write task
\* is still running.
C30_ConnectCompletesWithGroup ==
    [][(bridge_pc = "running" /\ bridge_pc' \in {"returned", "raised"}) =>
            \A e \in Range(combined) :
                /\ connect_task'[e] # "running"
                /\ read_task'[e] # "wait"
                /\ write_task'[e] # "wait"]_vars

(***************************************************************************)
(* Part 14: a destination that does not drain.                             *)
(*                                                                         *)
(* The write path of the first endpoint of the bridge takes nothing from   *)
(* its receive queue (its peer has stopped reading, its drain() does not   *)
(* return); its read path and every other task go on.                      *)
(***************************************************************************)
Stalled == combined[1]

NextStall ==
    \/ BridgeConnect
    \/ \E e \in TcpEndpoints : TcpConnected(e)
    \/ \E e \in TcpEndpoints : \E data \in TcpReads : TcpRead(e, data, MaxFifoReads)
    \/ \E e \in TcpEndpoints : e # Stalled /\ TcpWrite(e, "sent")
    \/ \E e \in RawEndpoints : \E packet \in RawFrames : RawRead(e, packet, MaxFifoReads)
    \/ \E e \in RawEndpoints : e # Stalled /\ RawWrite(e)
    \/ SnifferServe
    \/ SNIFFER # Stalled /\ SnifferForward

\* the write paths that run
StallProgram ==
    \/ BridgeConnect
    \/ SnifferServe
    \/ \E e \in TcpEndpoints : e # Stalled /\ TcpWrite(e, "sent")
    \/ \E e \in RawEndpoints : e # Stalled /\ RawWrite(e)
    \/ SNIFFER # Stalled /\ SnifferForward

SpecStall == InitFifo /\ [][NextStall]_vars

FairStall == SpecStall /\ WF_vars(StallProgram)

\* C31: with one destination never draining, every frame a read path has
\* extracted is on the receive queue of every other endpoint or has been
\* taken from it, in the order of extraction; the stalled endpoint has taken
\* nothing and its queue holds every item put on it; every other endpoint
\* has written what it has taken, and again and again its queue is empty
\* while its transport is up.
C31_StalledPeerDoesNotBlock ==
    /\ [](\A A \in Range(combined) : \A D \in Range(combined) \ {A} :
            PacketsFrom(A, D) = extracted[A])
    /\ [](bridge_pc = "running" =>
            /\ taken[Stalled] = <<>>
            /\ \A D \in Range(combined) \ {Stalled} : Emitted(D))
    /\ \A D \in Endpoints :
        []<>(bridge_pc = "running" /\
             ((D \in Range(combined) \ {Stalled} /\ TransportUp(D) /\ D # SNIFFER)
                 => receive_queue[D] = <<>>))

\* two frames wait on the stalled TCP endpoint while the other TCP endpoint
\* and the TAP device have been written the frames read on the stalled one
C31_Witness ==
    /\ combined = << <<"tcp", 1>>, <<"tcp", 2>>, TAP >>
    /\ Len(receive_queue[<<"tcp", 1>>]) = 2
    /\ Len(extracted[<<"tcp", 1>>]) >= 1
    /\ written[<<"tcp", 2>>] # <<>>
    /\ written[TAP] # <<>>
    /\ receive_queue[<<"tcp", 2>>] = <<>>

(***************************************************************************)
(* Part 15: frames queued while open_connection is pending.                *)
(***************************************************************************)
\* C32: while the open_connection of a TCP endpoint is pending, nothing is
\* taken from its receive queue or written, and every frame its peers have
\* extracted waits on the queue in order; once the connection is up, the
\* items that waited when it came up are the first ones taken or still
\* waiting, in their queue order, every item taken has been written framed
\* in the order taken, and the write path comes to have taken every item
\* that waited.
C32_PendingFramesKept ==
    /\ [](\A e \in TcpEndpoints \cap Range(combined) :
            /\ tcp_conn[e] = "opening" =>
                /\ taken[e] = <<>>
                /\ written[e] = <<>>
                /\ \A A \in Range(combined) \ {e} :
                    PacketsOf(SelectSeq(receive_queue[e],
                                        LAMBDA item : item.src = A)) = extracted[A]
            /\ tcp_conn[e] = "up" =>
                /\ IsPrefix(backlog[e], taken[e] \o receive_queue[e])
                /\ written[e] = [i \in DOMAIN taken[e] |->
                                    WireFrame(taken[e][i].packet)])
    /\ \A e \in TcpEndpoints :
        (tcp_conn[e] = "up") ~> (tcp_conn[e] = "up" /\ Len(taken[e]) >= Len(backlog[e]))

\* one frame waited when the connection of the first TCP endpoint came up;
\* it has been written first, and a frame put later after it
C32_Witness ==
    /\ tcp_conn[<<"tcp", 1>>] = "up"
    /\ Len(backlog[<<"tcp", 1>>]) = 1
    /\ Len(written[<<"tcp", 1>>]) = 2
    /\ written[<<"tcp", 1>>][1] = WireFrame(backlog[<<"tcp", 1>>][1].packet)
    /\ written[<<"tcp", 1>>][2] # written[<<"tcp", 1>>][1]

(***************************************************************************)
(* Part 16: the sniffer's receive queue with and without a capture client. *)
(***************************************************************************)
\* the frames the forwarder has dequeued since start_session ran for s
DequeuedSince(s) ==
    SubSeq(PacketsOf(taken[SNIFFER]), session[s].at + 1, Len(taken[SNIFFER]))

\* the stream of s is the global header and then, one for one and in order,
\* records of the first frames dequeued since s was registered
StreamSince(s) ==
    client_stream[s] # <<>> =>
        /\ client_stream[s][1] = PCAP_HEADER
        /\ Len(client_stream[s]) - 1 <= Len(DequeuedSince(s))
        /\ \A i \in 2..Len(client_stream[s]) :
            client_stream[s][i] \in
                {get_pcap_from_packet(DequeuedSince(s)[i - 1], now) : now \in Clock}

\* a step of the forwarder while capture_queues is empty
DiscardStep ==
    (taken'[SNIFFER] # taken[SNIFFER] /\ capture_queues = <<>>) =>
        /\ receive_queue'[SNIFFER] = Tail(receive_queue[SNIFFER])
        /\ capture_queue' = capture_queue
        /\ client_stream' = client_stream

\* C33: every frame put on the sniffer's receive queue comes to be dequeued,
\* a client connected or not; a frame dequeued while capture_queues is empty
\* reaches no capture queue and no stream; and the stream of every session
\* is the global header followed by records of frames dequeued after the
\* session was registered, in order, all of them for a registered session
\* whose client is connected (written or waiting on its capture queue).
C33_SnifferDrains ==
    /\ \A k \in 1..MaxCaptures :
        (Len(taken[SNIFFER] \o receive_queue[SNIFFER]) >= k)
            ~> (Len(taken[SNIFFER]) >= k)
    /\ [][DiscardStep]_vars
    /\ [](\A s \in Sessions :
            /\ session[s].state \in {"none", "rejected"} => client_stream[s] = <<>>
            /\ session[s].state \in {"active", "ended"} => StreamSince(s)
            /\ (session[s].state = "active" /\ session[s].link = "up") =>
                 /\ Len(Pending(s)) = Len(DequeuedSince(s))
                 /\ \A i \in DOMAIN Pending(s) :
                        Pending(s)[i] \in
                            {get_pcap_from_packet(DequeuedSince(s)[i], now) :
                                now \in Clock})

\* a frame was dequeued and discarded before the first session began; the
\* client has received the header and the record of the frame dequeued since
C33_Witness ==
    /\ session[1].state = "active"
    /\ session[1].at = 1
    /\ Len(taken[SNIFFER]) = 2
    /\ Len(client_stream[1]) = 2
    /\ taken[SNIFFER][1].packet # taken[SNIFFER][2].packet

(***************************************************************************)
(* Part 17: the frame of length zero on each kind of transport.            *)
(***************************************************************************)
\* a PCAP record of no data: 16 bytes, the two length fields 0
EmptyRecord(r) == Len(r) = 16 /\ SubSeq(r, 9, 16) = <<0, 0, 0, 0, 0, 0, 0, 0>>

\* a step in which the write path of e takes a frame of length zero
TakesEmpty(e) ==
    /\ taken'[e] # taken[e]
    /\ receive_queue[e] # <<>>
    /\ Head(receive_queue[e]).packet = <<>>

EmptyFrameStep ==
    \A e \in Range(combined) :
        TakesEmpty(e) =>
            CASE e \in RawEndpoints ->
                    /\ written'[e] = written[e]
                    /\ write_task'[e] = "wait"
                    /\ receive_queue'[e] = Tail(receive_queue[e])
              [] e \in TcpEndpoints ->
                    tcp_conn[e] = "up" =>
                        written'[e] = Append(written[e], <<0, 0, 0, 0>>)
              [] OTHER ->
                    \A s \in Range(capture_queues) :
                        /\ Len(capture_queue'[s]) = Len(capture_queue[s]) + 1
                        /\ EmptyRecord(capture_queue'[s][Len(capture_queue'[s])])

\* C34: a step in which a TAP or physical endpoint takes a frame of length
\* zero writes nothing to the device and leaves the write loop waiting for
\* the next item; a TCP endpoint writes the four bytes 00 00 00 00 for it;
\* the sniffer puts a record of 16 bytes with both length fields 0 on every
\* capture queue. What a device has been written is the frames taken that
\* are not empty, in order, those taken after an empty one included.
C34_EmptyFramesSkippedOnRaw ==
    /\ [][EmptyFrameStep]_vars
    /\ [](\A e \in RawEndpoints \cap Range(combined) :
            /\ \A i \in DOMAIN written[e] : written[e][i] # <<>>
            /\ written[e] = SelectSeq(PacketsOf(taken[e]),
                                      LAMBDA packet : packet # <<>>))

\* the TAP endpoint has taken a frame of length zero and the frame after it
\* and written the second alone; the other TCP endpoint has written the four
\* zero bytes and then the framed second
C34_Witness ==
    /\ combined = << <<"tcp", 1>>, <<"tcp", 2>>, TAP >>
    /\ PacketsOf(taken[TAP]) = << <<>>, <<1, 1>> >>
    /\ written[TAP] = << <<1, 1>> >>
    /\ write_task[TAP] = "wait"
    /\ written[<<"tcp", 2>>] = << <<0, 0, 0, 0>>, <<0, 0, 0, 2, 1, 1>> >>

(***************************************************************************)
(* Part 18: the State object with devices and bridges started and stopped. *)
(***************************************************************************)
\* the device interfaces whose connection is bridge_name
attached(state, bridge_name) ==
    {<<d, i>> \in DeviceNames \X (0..(MaxInterfaces - 1)) :
        d \in DOMAIN state.devices /\ state.devices[d][i] = bridge_name}

\* State.get_bridge_command raises: an attached device has no pid, or
\* shutil.which does not find the ndlab executable
get_bridge_command_raises(state, bridge_name, installed) ==
    \/ \E at \in attached(state, bridge_name) : ~running(state.device_pid[at[1]])
    \/ ~installed

\* State._background_command: None for a sudo command (it is printed, not
\* run) and when Popen raises, the pid of the process otherwise
background_command(sudo, launched) == IF sudo \/ ~launched THEN "none" ELSE "pid"

\* State.start_bridge; installed: the ndlab executable is on the PATH;
\* launched: Popen returns a process
start_bridge(bridge_name, installed, launched) ==
    LET exists == bridge_name \in lab.bridges
        already == exists /\ running(lab.bridge_pid[bridge_name])
        \* bridge_state.sniffer_port = common.get_free_port(), the statement
        \* in front of get_bridge_command
        with_port == [lab EXCEPT !.sniffer_port[bridge_name] = "port"]
        command_raises == get_bridge_command_raises(with_port, bridge_name, installed)
        sudo == bridge_name \in lab.phyical_endpoints
    IN  /\ lab_call' = [op |-> "start_bridge",
                        raised |-> ~exists \/ already \/ command_raises,
                        distinct |-> 0]
        /\ lab' = IF ~exists \/ already THEN lab
                  ELSE IF command_raises THEN with_port
                  ELSE [with_port EXCEPT !.bridge_pid[bridge_name] =
                                            background_command(sudo, launched)]
        /\ UNCHANGED <<start_args, exit_status, unreasonable_at, backlog, topology>>
        /\ UNCHANGED <<host_le, codec_vars, bridge_vars, life_vars>>

\* State.start_device; launched: Popen returns a process
start_device(device_name, launched) ==
    LET raises == \/ device_name \notin DOMAIN lab.devices
                  \/ running(lab.device_pid[device_name])
    IN  /\ lab_call' = [op |-> "start_device", raised |-> raises, distinct |-> 0]
        /\ lab' = IF raises THEN lab
                  ELSE [lab EXCEPT !.device_pid[device_name] =
                                      background_command(FALSE, launched)]
        /\ UNCHANGED <<start_args, exit_status, unreasonable_at, backlog, topology>>
        /\ UNCHANGED <<host_le, codec_vars, bridge_vars, life_vars>>

\* State.register_bridge_pid (pid: a process number)
register_bridge_pid(bridge_name) ==
    /\ lab_call' = [op |-> "register_bridge_pid",
                    raised |-> bridge_name \notin lab.bridges, distinct |-> 0]
    /\ lab' = IF bridge_name \in lab.bridges
              THEN [lab EXCEPT !.bridge_pid[bridge_name] = "pid"] ELSE lab
    /\ UNCHANGED <<start_args, exit_status, unreasonable_at, backlog, topology>>
    /\ UNCHANGED <<host_le, codec_vars, bridge_vars, life_vars>>

\* the bridge names and the tcp_endpoints given to the calls: a name, the
\* empty name; interface 0 of each device, an index no device has
GivenBridgeNames == {"b1", ""}

GivenEndpoints ==
    { [device |-> "r1", digits |-> <<0>>, junk |-> FALSE],
      [device |-> "r2", digits |-> <<0>>, junk |-> FALSE],
      [device |-> "r2", digits |-> <<2>>, junk |-> FALSE] }

\* nic_endpoint, tap_endpoint, and whether the host has interfaces
GivenNics ==
    { <<FALSE, FALSE, TRUE>>, <<TRUE, FALSE, TRUE>>, <<FALSE, TRUE, TRUE>>,
      <<FALSE, TRUE, FALSE>> }

\* devices loaded and deleted, bridges added, stopped and deleted
NextAttach ==
    \/ \E name \in DeviceNames : LoadDevice(name)
    \/ \E name \in GivenBridgeNames :
       \E tcp_endpoints \in SeqsUpTo(GivenEndpoints, MaxBridgeEndpoints) :
       \E nics \in GivenNics :
            add_bridge(name, tcp_endpoints, nics[1], nics[2], nics[3])
    \/ \E name \in GivenBridgeNames : \E delete \in BOOLEAN : StopBridge(name, delete)
    \/ \E name \in DeviceNames : \E delete \in BOOLEAN : StopDevice(name, delete)
    \/ \E name \in DeviceNames : DeleteDevice(name)

SpecAttach == InitLab /\ [][NextAttach]_vars

\* the same, and devices and bridges started
NextState ==
    \/ NextAttach
    \/ \E name \in DeviceNames : \E launched \in BOOLEAN : start_device(name, launched)
    \/ \E name \in GivenBridgeNames : \E installed \in BOOLEAN, launched \in BOOLEAN :
            start_bridge(name, installed, launched)
    \/ \E name \in GivenBridgeNames : register_bridge_pid(name)

SpecState == InitLab /\ [][NextState]_vars

\* every interface whose connection is set names a bridge of State.bridges
ConnectionsRefer ==
    \A d \in DOMAIN lab.devices : \A i \in DOMAIN lab.devices[d] :
        lab.devices[d][i] # "none" => lab.devices[d][i] \in lab.bridges

\* every key of tap_endpoints and phyical_endpoints is a bridge
EndpointKeysRefer ==
    /\ lab.tap_endpoints \subseteq lab.bridges
    /\ lab.phyical_endpoints \subseteq lab.bridges

\* an add_bridge that returns leaves every interface that had a connection
\* with that connection
AttachesFreeOnly ==
    (lab_call'.op = "add_bridge" /\ ~lab_call'.raised) =>
        \A d \in DOMAIN lab.devices : \A i \in DOMAIN lab.devices[d] :
            lab.devices[d][i] # "none" => lab'.devices[d][i] = lab.devices[d][i]

\* C35: after any sequence of load_device, add_bridge, stop_bridge (with or
\* without delete), stop_device and delete_device, every interface whose
\* connection is set names a bridge of State.bridges, every key of
\* tap_endpoints and phyical_endpoints is a bridge of State.bridges, and no
\* add_bridge call attaches an interface that is attached to another bridge.
C35_AttachmentsRefer ==
    /\ []ConnectionsRefer
    /\ []EndpointKeysRefer
    /\ [][AttachesFreeOnly]_vars

\* an attached device of the bridge has no pid
device_stopped(state, bridge_name) ==
    \E at \in attached(state, bridge_name) : ~running(state.device_pid[at[1]])

\* a bridge with a recorded pid has every attached device running
RunningBridgeOnRunningDevices ==
    \A b \in lab.bridges :
        running(lab.bridge_pid[b]) => ~device_stopped(lab, b)

\* start_bridge on a bridge that is running or has a stopped device raises
\* and records no pid
StartBridgeRefuses ==
    \A name \in GivenBridgeNames : \A installed \in BOOLEAN, launched \in BOOLEAN :
        (/\ start_bridge(name, installed, launched)
         /\ name \in lab.bridges
         /\ running(lab.bridge_pid[name]) \/ device_stopped(lab, name))
            => (lab_call'.raised /\ lab'.bridge_pid = lab.bridge_pid)

\* stop_device leaves no pid on a bridge that was attached to the device
StopDeviceClearsBridges ==
    \A name \in DeviceNames : \A delete \in BOOLEAN :
        (StopDevice(name, delete) /\ name \in DOMAIN lab.devices) =>
            \A b \in lab.bridges :
                (b \in lab'.bridges /\ \E i \in DOMAIN lab.devices[name] :
                                            lab.devices[name][i] = b)
                    => lab'.bridge_pid[b] = "none"

\* C36: in every State reached through load_device, start_device,
\* stop_device, add_bridge, start_bridge, stop_bridge, register_bridge_pid
\* and delete_device, a bridge with a recorded pid has every attached device
\* running; start_bridge raises and launches nothing when the bridge is
\* running or an attached device is stopped; stop_device clears the pid of
\* every bridge attached to the device.
C36_RunningBridgeRunningDevices ==
    /\ []RunningBridgeOnRunningDevices
    /\ [][StartBridgeRefuses]_vars
    /\ [][StopDeviceClearsBridges]_vars

\* C37: a call of add_bridge or start_bridge that raises leaves every field
\* of the State as it was.
C37_FailedCallsChangeNothing ==
    [][(lab_call'.op \in {"add_bridge", "start_bridge"} /\ lab_call'.raised)
            => lab' = lab]_vars

=============================================================================
